---- MODULE Spec2Model ----
(***************************************************************************)
(* Entitlement and usage-metering core of unprice: the EntitlementService  *)
(* (verify, reportUsage, getStateWithRevalidation, reconcileFeatureUsage,  *)
(* initializeUsageMeter), the GrantsManager (computeEntitlementState,      *)
(* mergeGrants) and the per-customer actor that hosts them.                *)
(*                                                                         *)
(* One customer, one project, one feature.  Time is counted in ticks of    *)
(* five minutes: the reconcile watermark (now - 5 minutes) and the         *)
(* production revalidation interval (300000 ms) are both one tick.  A      *)
(* request carries the actor's clock reading as its timestamp.  Request    *)
(* handlers run as one step (requests serialise at the actor); the         *)
(* background reconcile a handler fires runs its synchronous prefix inside *)
(* the handler and completes in a later step of its own.                   *)
(***************************************************************************)
EXTENDS Integers, Sequences, FiniteSets, TLC

VARIABLES
  now,          \* the actor's clock (Date.now(), also the request timestamp)
  agg,          \* aggregationMethod of the feature's plan version
  grantStatus,  \* grants table: grant id -> "absent" | "live" | "deleted"
  dbEnt,        \* entitlements table: the rows of the customer's feature
  cacheEnt,     \* cache namespace customerEntitlement, or NoEnt
  negCache,     \* cache namespace negativeEntitlements (per-feature key)
  store,        \* actor storage: the EntitlementState, or NoState
  idemKeys,     \* actor storage: idempotence keys seen
  buffer,       \* actor storage: usage records not yet flushed
  analytics,    \* analytics store: usage records ingested
  inflight,     \* background reconciles awaiting analytics
  verifications, \* actor storage: verification records not yet flushed
  logs,         \* error log messages emitted, in order
  reqCount,     \* number of requests served
  failures,     \* number of storage write faults injected
  lastResult,   \* result of the last request, as returned to the caller
  firstResult,  \* idempotence key -> result of the first reportUsage with it
  applied,      \* idempotence key -> times its usage was persisted on the meter
  ryw,          \* read-your-writes probe armed by an allowed reportUsage
  lastReqCycle, \* start of the cycle window of the last request
  preVersion,   \* version current before the latest grant mutation
  lastRecon,    \* what the last completed reconcile did
  pure,         \* inputs and result of a stand-alone mergeGrants call
  grantsTable,  \* grants table rows and the last createGrant / renewal on them
  alarmState,   \* the actor's clock in ms, its storage alarm, the last alarm step
  aclState,  \* entitlement states of two features, the customer's ACL flag, the last step on them
  reconRun,  \* one reconcileFeatureUsage call on a given state: its input, its query, the storage
  apiKeyState,  \* the apikey row's hash, the apiKeyByHash cache, the last call of the apikey service
  wideEvents   \* the wide-event logger: its storage adapter and the calls of runAsync

vars == <<now, agg, grantStatus, dbEnt, cacheEnt, negCache, store, idemKeys,
          buffer, analytics, inflight, verifications, logs, reqCount, failures,
          lastResult, firstResult, applied, ryw, lastReqCycle, preVersion,
          lastRecon, pure, grantsTable, alarmState, aclState, reconRun, apiKeyState, wideEvents>>

----------------------------------------------------------------------------
\* Bounds of the model

MaxTime == 4
MaxRequests == 3
MaxInflight == 2
MaxFailures == 1
\* grants in a list handed to mergeGrants
MaxGrants == 2

\* null / undefined for timestamps, limits and windows' absence
Null == 0 - 1

Keys == {"k1", "k2"}
Deltas == {3, 1200}
VerifyUsages == {0}

----------------------------------------------------------------------------
\* Program constants (time in ticks of five minutes)

MAX_DRIFT == 1000
\* EPSILON is 0.001 in the source; usage is integral here, so |drift| > EPSILON
\* is |drift| > 0
EPSILON == 0
revalidateInterval == 1
WatermarkLag == 1

Abs(x) == IF x < 0 THEN 0 - x ELSE x
Max2(a, b) == IF a >= b THEN a ELSE b
Min2(a, b) == IF a <= b THEN a ELSE b

RECURSIVE SumSet(_)
SumSet(S) == IF S = {} THEN 0
             ELSE LET x == CHOOSE y \in S : TRUE IN x.usage + SumSet(S \ {x})

----------------------------------------------------------------------------
\* Ordered record ids.  ulid(t) is the 48-bit time followed by 80 random
\* bits, compared as a string: ordered by time, then by the random part.
\* The empty string "" sorts before every ULID.

UlidRandom == 0..4
\* ulid() calls never return the same id twice.  Of the ids drawn in one tick
\* those the service draws as query boundaries sort first and the record
\* ids follow in the order they are drawn.
BoundaryRandom == {1}
RecordRandom == {2, 3, 4}
EmptyId == Null
Ulid(t, r) == t * Cardinality(UlidRandom) + r
UlidTime(id) == id \div Cardinality(UlidRandom)

----------------------------------------------------------------------------
\* Aggregation config table

AggMethods == {"sum", "sum_all", "max"}

AGGREGATION_CONFIG(method) ==
  CASE method = "none" -> [behavior |-> "none", scope |-> "period"]
    [] method = "sum" -> [behavior |-> "sum", scope |-> "period"]
    [] method = "count" -> [behavior |-> "sum", scope |-> "period"]
    [] method = "max" -> [behavior |-> "max", scope |-> "period"]
    [] method = "last_during_period" -> [behavior |-> "last", scope |-> "period"]
    [] method = "sum_all" -> [behavior |-> "sum", scope |-> "lifetime"]
    [] method = "count_all" -> [behavior |-> "sum", scope |-> "lifetime"]
    [] method = "max_all" -> [behavior |-> "max", scope |-> "lifetime"]

AggResets(method) == AGGREGATION_CONFIG(method).scope = "period"

----------------------------------------------------------------------------
\* Cycle windows.  Half-open [start, end), aligned to the anchor, inside the
\* effective range; no window outside the effective range.

NoWindow == [start |-> Null, end |-> Null]

ResetConfig == [resetInterval |-> 3, resetAnchor |-> 1]

calculateCycleWindow(effectiveStartDate, effectiveEndDate, t, config) ==
  IF t < effectiveStartDate \/ (effectiveEndDate # Null /\ t >= effectiveEndDate)
  THEN NoWindow
  ELSE LET k == (t - config.resetAnchor) \div config.resetInterval
           s == config.resetAnchor + k * config.resetInterval
           e == s + config.resetInterval
       IN [start |-> Max2(s, effectiveStartDate),
           end |-> IF effectiveEndDate # Null THEN Min2(e, effectiveEndDate) ELSE e]

----------------------------------------------------------------------------
\* Grants.  The grants table holds at most these two grants of the feature;
\* both reference a plan version with featureType usage, usageMode unit,
\* overageStrategy none and a reset config.

GrantIds == {"g1", "g2"}
GrantOrder == <<"g1", "g2">>

FeatureType == "usage"
UsageMode == "unit"
FeatureSlug == "feature"

GrantRow(id) ==
  IF id = "g1"
  THEN [id |-> "g1", type |-> "subscription", name |-> "base", priority |-> 10,
        limit |-> 2000, effectiveAt |-> 0, expiresAt |-> Null, config |-> UsageMode,
        overageStrategy |-> "none"]
  ELSE [id |-> "g2", type |-> "addon", name |-> "extra", priority |-> 20,
        limit |-> 500, effectiveAt |-> 2, expiresAt |-> 3, config |-> UsageMode,
        overageStrategy |-> "none"]

\* the grants snapshot kept in the entitlement
GrantSnapshot(g) ==
  [id |-> g.id, type |-> g.type, name |-> g.name, effectiveAt |-> g.effectiveAt,
   expiresAt |-> g.expiresAt, limit |-> g.limit, priority |-> g.priority,
   config |-> g.config]

\* Array.prototype.sort((a, b) => b.priority - a.priority): stable, descending
RECURSIVE InsertByPriority(_, _)
InsertByPriority(x, s) ==
  IF s = <<>> THEN <<x>>
  ELSE IF Head(s).priority > x.priority
       THEN <<Head(s)>> \o InsertByPriority(x, Tail(s))
       ELSE <<x>> \o s

\* the grants in the order given, in place of SortByPriority
InputOrder(s) == s

RECURSIVE SortByPriority(_)
SortByPriority(s) ==
  IF s = <<>> THEN <<>> ELSE InsertByPriority(Head(s), SortByPriority(Tail(s)))

SeqRange(s) == {s[i] : i \in 1..Len(s)}
SetMax(S) == CHOOSE x \in S : \A y \in S : y <= x
SetMin(S) == CHOOSE x \in S : \A y \in S : x <= y

\* FindOrFirst that takes the highest-priority grant whatever matches
FirstSorted(hits, s) == s[1]

\* sorted.find(pred) || sorted[0]
FindOrFirst(hits, s) == IF hits = <<>> THEN s[1] ELSE hits[1]

\* DerivePolicy that never looks at the explicit policy
DeriveFromFeature(featureType, usageMode, explicitPolicy) ==
  IF featureType = "" THEN "replace"
  ELSE IF featureType = "usage"
       THEN (IF usageMode = "tier" THEN "max" ELSE "sum")
  ELSE IF featureType \in {"tier", "package"} THEN "max"
  ELSE "replace"

\* policy ?? (derived from featureType and usageMode)
DerivePolicy(featureType, usageMode, explicitPolicy) ==
  IF explicitPolicy # "" THEN explicitPolicy
  ELSE IF featureType = "" THEN "replace"
  ELSE IF featureType = "usage"
       THEN (IF usageMode = "tier" THEN "max" ELSE "sum")
  ELSE IF featureType \in {"tier", "package"} THEN "max"
  ELSE "replace"

\* mergeGrants, once the grants are sorted and the policy is derived
mergeSorted(sorted, policy) ==
  LET limits == {sorted[i].limit : i \in {j \in 1..Len(sorted) : sorted[j].limit # Null}}
      single(w, lim) ==
        [limit |-> lim, grants |-> <<w>>, effectiveAt |-> w.effectiveAt,
         expiresAt |-> w.expiresAt, mergingPolicy |-> policy]
      ends == {sorted[i].expiresAt
                 : i \in {j \in 1..Len(sorted) : sorted[j].expiresAt # Null}}
      total == SumSet({[i |-> i, usage |-> IF sorted[i].limit = Null THEN 0
                                           ELSE sorted[i].limit]
                        : i \in 1..Len(sorted)})
  IN CASE policy = "sum" ->
            [limit |-> IF total > 0 THEN total ELSE Null,
             grants |-> sorted,
             effectiveAt |-> SetMin({sorted[i].effectiveAt : i \in 1..Len(sorted)}),
             expiresAt |-> IF ends = {} THEN Null ELSE SetMax(ends),
             mergingPolicy |-> policy]
       [] policy = "max" ->
            IF limits = {} THEN single(sorted[1], Null)
            ELSE single(FindOrFirst(SelectSeq(sorted, LAMBDA g : g.limit = SetMax(limits)),
                                    sorted),
                        SetMax(limits))
       [] policy = "min" ->
            IF limits = {} THEN single(sorted[1], Null)
            ELSE single(FindOrFirst(SelectSeq(sorted, LAMBDA g : g.limit = SetMin(limits)),
                                    sorted),
                        SetMin(limits))
       [] OTHER -> single(sorted[1], sorted[1].limit)

mergeGrants(grants, featureType, usageMode, explicitPolicy) ==
  IF grants = <<>>
  THEN [limit |-> Null, grants |-> <<>>, effectiveAt |-> 0, expiresAt |-> Null,
        mergingPolicy |-> "replace"]
  ELSE mergeSorted(SortByPriority(grants),
                   DerivePolicy(featureType, usageMode, explicitPolicy))

\* a version that stands for the ids of the retained grants only
VersionOfIds(grants) == [i \in 1..Len(grants) |-> [id |-> grants[i].id]]

\* hashStringSHA256(JSON.stringify({grants})): SHA-256 is taken to be free of
\* collisions, so the version stands for the JSON text of the retained
\* grants, which lists every field of every snapshot in order
VersionOf(grants) == [i \in 1..Len(grants) |-> grants[i]]

NoEnt == [exists |-> FALSE]

\* InheritWinner in place of MergeOverage leaves the winning grant's strategy
InheritWinner(policy, strategies, winner) == winner

\* overage strategy of the merged entitlement
MergeOverage(policy, strategies, winner) ==
  IF policy \in {"sum", "max"}
  THEN (IF "always" \in strategies THEN "always"
        ELSE IF "last-call" \in strategies THEN "last-call"
        ELSE winner)
  ELSE IF policy = "min"
  THEN (IF "none" \in strategies THEN "none"
        ELSE IF "last-call" \in strategies THEN "last-call"
        ELSE "always")
  ELSE winner

\* the entitlement row, given the merge result and the winning grant
EntitlementOf(merged, winningGrant, strategies, best, t) ==
  [exists |-> TRUE,
   limit |-> merged.limit,
   mergingPolicy |-> merged.mergingPolicy,
   effectiveAt |-> IF AggResets(best.aggregationMethod) THEN merged.effectiveAt
                   ELSE winningGrant.effectiveAt,
   expiresAt |-> IF AggResets(best.aggregationMethod) THEN merged.expiresAt
                 ELSE winningGrant.expiresAt,
   hasResetConfig |-> AggResets(best.aggregationMethod),
   featureType |-> best.featureType,
   aggregationMethod |-> best.aggregationMethod,
   grants |-> merged.grants,
   version |-> VersionOf(merged.grants),
   nextRevalidateAt |-> t + revalidateInterval,
   overageStrategy |-> MergeOverage(merged.mergingPolicy, strategies,
                                    winningGrant.overageStrategy)]

\* merged.grants[0] ?? grantsSnapshot[0], looked up among the ordered grants
WinningGrant(ordered, merged) ==
  IF merged.grants # <<>>
  THEN FindOrFirst(SelectSeq(ordered, LAMBDA g : g.id = merged.grants[1].id), ordered)
  ELSE ordered[1]

\* bestPriorityGrant is ordered[0]
MergedEntitlement(ordered, merged, t) ==
  EntitlementOf(merged, WinningGrant(ordered, merged),
                {ordered[i].overageStrategy : i \in 1..Len(ordered)}, ordered[1], t)

\* featureType and usageMode handed to mergeGrants are the best priority grant's
OrderedEntitlement(ordered, t) ==
  MergedEntitlement(ordered,
                    mergeGrants([i \in 1..Len(ordered) |-> GrantSnapshot(ordered[i])],
                                ordered[1].featureType, ordered[1].config, ""),
                    t)

\* Result of computeEntitlementState: Err(message) or Ok(entitlement)
ComputeErr(message) == [err |-> message, val |-> NoEnt]
ComputeOk(entitlement) == [err |-> "", val |-> entitlement]

hasSameFeatureSlug(grants) ==
  \A i \in 1..Len(grants) : grants[i].featureSlug = grants[1].featureSlug

\* computeEntitlementState without the check of the feature slugs
computeAnySlug(grants, t) ==
  IF grants = <<>> THEN ComputeErr("No grants provided")
  ELSE ComputeOk(OrderedEntitlement(SortByPriority(grants), t))

\* computeEntitlementState, with the row fields computeEntitlementFromGrants
\* adds; grants carry their featurePlanVersion (featureSlug, featureType,
\* config, aggregationMethod, overageStrategy)
computeEntitlementState(grants, t) ==
  IF grants = <<>> THEN ComputeErr("No grants provided")
  ELSE IF ~hasSameFeatureSlug(grants)
  THEN ComputeErr("All grants must have the same feature slug")
  ELSE ComputeOk(OrderedEntitlement(SortByPriority(grants), t))

\* a grants row joined with its featurePlanVersion
WithPlanVersion(g, method) ==
  [id |-> g.id, type |-> g.type, name |-> g.name, priority |-> g.priority,
   limit |-> g.limit, effectiveAt |-> g.effectiveAt, expiresAt |-> g.expiresAt,
   config |-> g.config, overageStrategy |-> g.overageStrategy,
   featureSlug |-> FeatureSlug, featureType |-> FeatureType,
   aggregationMethod |-> method]

\* getGrantsForCustomer: the grants of the feature live at t
LiveGrants(status, t) ==
  LET live(id) == /\ status[id] = "live"
                  /\ GrantRow(id).effectiveAt <= t
                  /\ (GrantRow(id).expiresAt = Null \/ GrantRow(id).expiresAt > t)
      ids == SelectSeq(GrantOrder, live)
  IN [i \in 1..Len(ids) |-> GrantRow(ids[i])]

\* the feature's group of grantsByFeature, computed when it is not empty
ComputedFrom(grants, method, t) ==
  IF grants = <<>> THEN NoEnt
  ELSE computeEntitlementState([i \in 1..Len(grants) |-> WithPlanVersion(grants[i], method)],
                               t).val

\* computeGrantsForCustomer(...).find(e => e.featureSlug === featureSlug)
computeGrantsForCustomer(status, method, t) ==
  ComputedFrom(LiveGrants(status, t), method, t)

isGrantActive(grant, t) ==
  t >= grant.effectiveAt /\ (grant.expiresAt = Null \/ t < grant.expiresAt)

ValidatedState(state, merged) ==
  [state EXCEPT !.effectiveAt = merged.effectiveAt,
                !.expiresAt = merged.expiresAt,
                !.grants = merged.grants]

ValidateActive(state, t, activeGrants) ==
  IF state.effectiveAt # 0 /\ t < state.effectiveAt
  THEN [err |-> "not yet started", state |-> state]
  ELSE IF state.expiresAt # Null /\ state.expiresAt # 0 /\ t > state.expiresAt
  THEN [err |-> "expired", state |-> state]
  ELSE IF activeGrants = <<>>
  THEN [err |-> "no active grant", state |-> state]
  ELSE [err |-> "",
        state |-> ValidatedState(state, mergeGrants(activeGrants, state.featureType, "",
                                                    state.mergingPolicy))]

\* validateEntitlementState: [err, state]
validateEntitlementState(state, t) ==
  ValidateActive(state, t,
                 SortByPriority(SelectSeq(state.grants, LAMBDA g : isGrantActive(g, t))))

----------------------------------------------------------------------------
\* Usage meter: verify / consume / toPersist over the persisted MeterState

NoState == [exists |-> FALSE]

MeterNewUsage(behavior, usage, delta) ==
  CASE behavior = "sum" -> usage + delta
    [] behavior = "max" -> Max2(usage, delta)
    [] behavior = "last" -> delta
    [] OTHER -> usage

MeterAllowed(state, usage, newUsage) ==
  IF state.featureType = "flat" THEN state.limit # Null /\ state.limit > 0
  ELSE IF ~(state.limit # Null /\ newUsage > state.limit) THEN TRUE
  ELSE IF state.overageStrategy = "always" THEN TRUE
  ELSE IF state.overageStrategy = "last-call" THEN usage < state.limit
  ELSE FALSE

Decision(state, allowed, newUsage) ==
  [allowed |-> allowed,
   deniedReason |-> IF allowed THEN "" ELSE "LIMIT_EXCEEDED",
   newUsage |-> IF allowed /\ state.featureType # "flat" THEN newUsage
                ELSE state.meter.usage]

DecideAt(state, newUsage) ==
  Decision(state, MeterAllowed(state, state.meter.usage, newUsage), newUsage)

\* the allow/deny decision for moving the counter by delta
MeterDecide(state, delta) ==
  DecideAt(state, MeterNewUsage(AGGREGATION_CONFIG(state.aggregationMethod).behavior,
                                state.meter.usage, delta))

Remaining(state, usage) == IF state.limit = Null THEN Null ELSE state.limit - usage

ConsumeResult(state, d) ==
  [allowed |-> d.allowed, deniedReason |-> d.deniedReason,
   meter |-> [state.meter EXCEPT !.usage = d.newUsage],
   remaining |-> Remaining(state, d.newUsage)]

\* usageMeter.consume(delta, now) followed by toPersist()
MeterConsume(state, delta) == ConsumeResult(state, MeterDecide(state, delta))

VerifyResult(state, d) ==
  [allowed |-> d.allowed, deniedReason |-> d.deniedReason,
   meter |-> state.meter,
   remaining |-> Remaining(state, d.newUsage)]

\* usageMeter.verify(now, proposed) followed by toPersist()
MeterVerify(state, proposed) == VerifyResult(state, MeterDecide(state, proposed))

----------------------------------------------------------------------------
\* Analytics: usage over a range of record ids

Aggregate(sel, method) ==
  CASE AGGREGATION_CONFIG(method).behavior = "sum" ->
         (IF method \in {"count", "count_all"} THEN Cardinality(sel) ELSE SumSet(sel))
    [] AGGREGATION_CONFIG(method).behavior = "max" -> SetMax({r.usage : r \in sel})
    [] AGGREGATION_CONFIG(method).behavior = "last" ->
         (CHOOSE r \in sel : \A q \in sel : q.id <= r.id).usage
    [] OTHER -> 0

CursorResult(sel, method, featureType) ==
  IF featureType \notin {"usage", "package", "tier"} \/ sel = {}
  THEN [usage |-> 0, lastRecordId |-> EmptyId]
  ELSE [usage |-> Aggregate(sel, method),
        lastRecordId |-> SetMax({r.id : r \in sel})]

getFeaturesUsageCursor(records, method, featureType, afterRecordId, beforeRecordId, startAt) ==
  CursorResult({r \in records : /\ r.id > afterRecordId
                                /\ r.id < beforeRecordId
                                /\ r.timestamp >= startAt},
               method, featureType)

\* resetConfig ? calculateCycleWindow({...}) : null
WindowOf(ent, t) ==
  IF ent.hasResetConfig
  THEN calculateCycleWindow(ent.effectiveAt, ent.expiresAt, t, ResetConfig)
  ELSE NoWindow

\* watermarkCycleWindow?.start ?? effectiveAt
StartOr(window, effectiveAt) == IF window # NoWindow THEN window.start ELSE effectiveAt

InitialMeter(res, beforeRecordId, startAt) ==
  [usage |-> res.usage,
   snapshotUsage |-> res.usage,
   lastReconciledId |-> IF res.lastRecordId # EmptyId THEN res.lastRecordId
                        ELSE beforeRecordId,
   lastCycleStart |-> startAt]

MeterFromAnalytics(entitlement, records, beforeRecordId, afterRandom, startAt) ==
  InitialMeter(getFeaturesUsageCursor(records, entitlement.aggregationMethod,
                                      entitlement.featureType,
                                      Ulid(startAt, afterRandom), beforeRecordId, startAt),
               beforeRecordId, startAt)

\* initializeUsageMeter that reads analytics whatever is stored
initializeFromAnalytics(entitlement, stored, watermark, forceRefresh, records, rnd) ==
  MeterFromAnalytics(entitlement, records, Ulid(watermark, rnd.before), rnd.after,
                     StartOr(WindowOf(entitlement, watermark), entitlement.effectiveAt))

\* initializeUsageMeter; rnd holds the random parts of the two ulid() calls
initializeUsageMeter(entitlement, stored, watermark, forceRefresh, records, rnd) ==
  IF ~forceRefresh /\ stored.exists THEN stored.meter
  ELSE MeterFromAnalytics(entitlement, records, Ulid(watermark, rnd.before), rnd.after,
                          StartOr(WindowOf(entitlement, watermark), entitlement.effectiveAt))

WithMeter(entitlement, meter) ==
  [exists |-> TRUE, limit |-> entitlement.limit,
   mergingPolicy |-> entitlement.mergingPolicy,
   effectiveAt |-> entitlement.effectiveAt, expiresAt |-> entitlement.expiresAt,
   hasResetConfig |-> entitlement.hasResetConfig,
   featureType |-> entitlement.featureType,
   aggregationMethod |-> entitlement.aggregationMethod,
   grants |-> entitlement.grants, version |-> entitlement.version,
   nextRevalidateAt |-> entitlement.nextRevalidateAt,
   overageStrategy |-> entitlement.overageStrategy, meter |-> meter]

----------------------------------------------------------------------------
\* reconcileFeatureUsage, first half: the checks made before the analytics
\* query is sent.  NoRecon when the reconcile is skipped.

NoRecon == [started |-> FALSE]

\* CycleChanged without the comparison of the two window starts
CycleNeverChanged(watermarkCycleWindow, currentCycleWindow) == FALSE

\* watermarkCycleWindow && currentCycleWindow && start !== start
CycleChanged(watermarkCycleWindow, currentCycleWindow) ==
  /\ watermarkCycleWindow # NoWindow
  /\ currentCycleWindow # NoWindow
  /\ watermarkCycleWindow.start # currentCycleWindow.start

\* ReconcileChecks without the check for an empty lastReconciledId
ChecksWithoutEmptyId(state, watermark, watermarkCycleWindow, currentCycleWindow, effectiveAt, beforeRecordId) ==
  IF \/ state.featureType = "flat"
     \/ AGGREGATION_CONFIG(state.aggregationMethod).behavior # "sum"
     \/ CycleChanged(watermarkCycleWindow, currentCycleWindow)
     \/ state.meter.lastReconciledId >= beforeRecordId
     \/ watermark < effectiveAt
  THEN NoRecon
  ELSE [started |-> TRUE,
        meter |-> state.meter,
        entitlementState |-> state,
        afterRecordId |-> state.meter.lastReconciledId,
        beforeRecordId |-> beforeRecordId,
        startAt |-> effectiveAt,
        watermarkCycleStart |-> watermarkCycleWindow.start,
        currentCycleStart |-> currentCycleWindow.start]

ReconcileChecks(state, watermark, watermarkCycleWindow, currentCycleWindow, effectiveAt, beforeRecordId) ==
  IF \/ state.featureType = "flat"
     \/ AGGREGATION_CONFIG(state.aggregationMethod).behavior # "sum"
     \/ CycleChanged(watermarkCycleWindow, currentCycleWindow)
     \/ state.meter.lastReconciledId >= beforeRecordId
     \/ watermark < effectiveAt
     \/ state.meter.lastReconciledId = EmptyId
  THEN NoRecon
  ELSE [started |-> TRUE,
        meter |-> state.meter,
        entitlementState |-> state,
        afterRecordId |-> state.meter.lastReconciledId,
        beforeRecordId |-> beforeRecordId,
        startAt |-> effectiveAt,
        watermarkCycleStart |-> watermarkCycleWindow.start,
        currentCycleStart |-> currentCycleWindow.start]

ReconcileWindows(state, watermark, watermarkCycleWindow, currentCycleWindow, rnd) ==
  ReconcileChecks(state, watermark, watermarkCycleWindow, currentCycleWindow,
                  StartOr(watermarkCycleWindow, state.effectiveAt),
                  Ulid(watermark, rnd.before))

ReconcileStart(state, t, rnd) ==
  ReconcileWindows(state, t - WatermarkLag, WindowOf(state, t - WatermarkLag),
                   WindowOf(state, t), rnd)

----------------------------------------------------------------------------
\* reconcileFeatureUsage, second half: after the analytics result arrives

ReconcileDrift(recon, analyticsUsage) == analyticsUsage - recon.meter.snapshotUsage

\* DriftTooLarge without the MAX_DRIFT guard
DriftNeverTooLarge(drift) == FALSE

DriftTooLarge(drift) == Abs(drift) > MAX_DRIFT

\* meter.usage = toStore(snapshotCurrentUsage + drift) when the drift is above
\* EPSILON, then meter.usage = toStore(snapshotCurrentUsage): the later
\* assignment wins
ReconciledUsage(snapshotCurrentUsage, drift) ==
  LET corrected == IF Abs(drift) > EPSILON THEN snapshotCurrentUsage + drift
                   ELSE snapshotCurrentUsage
      overwritten == snapshotCurrentUsage
  IN overwritten

\* the meter the reconcile writes; snapshotUsage is left as it was
ReconcileMeter(recon, res) ==
  [recon.meter EXCEPT
     !.usage = ReconciledUsage(recon.meter.usage, ReconcileDrift(recon, res.usage)),
     !.lastReconciledId = IF res.lastRecordId # EmptyId THEN res.lastRecordId
                          ELSE recon.beforeRecordId]

\* ReconcilePersist that writes even when the drift is too large
PersistAlways(recon, res, stored) ==
  WithMeter(recon.entitlementState, ReconcileMeter(recon, res))

\* storage after the reconcile returns: untouched on abort, else
\* {...entitlementState, meter}
ReconcilePersist(recon, res, stored) ==
  IF DriftTooLarge(ReconcileDrift(recon, res.usage)) THEN stored
  ELSE WithMeter(recon.entitlementState, ReconcileMeter(recon, res))

----------------------------------------------------------------------------
\* Storage: idempotence keys (checked and inserted in one call)

hasIdempotenceKey(keys, k) == [exists |-> k \in keys, keys |-> keys \cup {k}]

----------------------------------------------------------------------------
\* Entitlements table.  Every row of the model has the same (projectId,
\* customerId, featureSlug); a row is the entitlement plus its id.

EntitlementRow(e, id) ==
  [f \in DOMAIN e \cup {"id"} |-> IF f = "id" THEN id ELSE e[f]]

\* the entitlement a row holds
EntitlementIn(row) == [f \in DOMAIN row \ {"id"} |-> row[f]]

\* db.query.entitlements.findFirst(...) ?? null
getActiveEntitlementFromDB(table) ==
  IF table = {} THEN NoEnt ELSE EntitlementIn(CHOOSE row \in table : TRUE)

\* newId("entitlement"): an id no row has
newId(table) == SetMax({0} \cup {row.id : row \in table}) + 1

\* insert that adds a row whether or not one with the key is there
InsertAlways(table, e) == table \cup {EntitlementRow(e, newId(table))}

\* insert(...).values(entitlementData).onConflictDoUpdate({target: [projectId,
\* customerId, featureSlug], set: entitlementData}): the row with the key is
\* replaced and keeps its id (id: currentEntitlement?.id ?? newId(...))
Upsert(table, e) ==
  IF table = {} THEN {EntitlementRow(e, newId(table))}
  ELSE {EntitlementRow(e, (CHOOSE row \in table : TRUE).id)}

\* the table after a lookup that left `after` as the entitlement of the key:
\* computeEntitlementFromGrants has written if it differs from what was read
Stored(table, after) ==
  IF after = getActiveEntitlementFromDB(table) THEN table ELSE Upsert(table, after)

\* the row a reader of the table finds
DbRow == getActiveEntitlementFromDB(dbEnt)

----------------------------------------------------------------------------
\* getActiveEntitlement.  w = [db, cache, neg] is the table row, the cache
\* entry and the negative-cache flag as they stand when the call starts.

\* CacheOrDb that answers from the cache whatever skipCache says
CacheFirst(skipCache, w) == IF w.cache.exists THEN w.cache ELSE w.db

\* opts.skipCache ? getActiveEntitlementFromDB() : cache.customerEntitlement.swr()
CacheOrDb(skipCache, w) == IF ~skipCache /\ w.cache.exists THEN w.cache ELSE w.db

Loaded(entitlement, stored, t, records, rnd) ==
  WithMeter(entitlement, initializeUsageMeter(entitlement, stored, t, FALSE, records, rnd))

\* ActiveFrom without the look at the negative entry
ActiveWithoutNegative(skipCache, t, w, stored, records, rnd, val, computed) ==
  IF val.exists
  THEN [val |-> Loaded(val, stored, t, records, rnd),
        db |-> w.db,
        cache |-> IF ~skipCache /\ ~w.cache.exists THEN w.db ELSE w.cache,
        neg |-> w.neg]
  ELSE IF computed.exists
  THEN [val |-> Loaded(computed, stored, t, records, rnd),
        db |-> computed, cache |-> computed, neg |-> w.neg]
  ELSE [val |-> NoState, db |-> w.db, cache |-> w.cache, neg |-> TRUE]

ActiveFrom(skipCache, t, w, stored, records, rnd, val, computed) ==
  IF val.exists
  THEN [val |-> Loaded(val, stored, t, records, rnd),
        db |-> w.db,
        \* swr stores what the loader returned
        cache |-> IF ~skipCache /\ ~w.cache.exists THEN w.db ELSE w.cache,
        neg |-> w.neg]
  ELSE IF ~skipCache /\ w.neg
  THEN [val |-> NoState, db |-> w.db, cache |-> w.cache, neg |-> w.neg]
  ELSE IF computed.exists
  THEN [val |-> Loaded(computed, stored, t, records, rnd),
        db |-> computed, cache |-> computed, neg |-> w.neg]
  ELSE [val |-> NoState, db |-> w.db, cache |-> w.cache, neg |-> TRUE]

getActiveEntitlement(skipCache, t, w, stored, status, method, records, rnd) ==
  ActiveFrom(skipCache, t, w, stored, records, rnd, CacheOrDb(skipCache, w),
             computeGrantsForCustomer(status, method, t))

----------------------------------------------------------------------------
\* getStateWithRevalidation: the state handed to the handler, storage, table
\* and caches afterwards, and the reconcile fired (NoRecon if none).

LookupResult(state, st, w, recon, path) ==
  [state |-> state, store |-> st, db |-> w.db, cache |-> w.cache, neg |-> w.neg,
   recon |-> recon, path |-> path]

\* storage.set({state}); waitUntil(reconcileFeatureUsage({state, now}))
Fired(w, state, t, rnd, path) ==
  LookupResult(state, state, w, ReconcileStart(state, t, rnd), path)

Missed(cached, a) ==
  IF ~a.val.exists THEN LookupResult(NoState, cached, a, NoRecon, "miss-none")
  ELSE LookupResult(a.val, a.val, a, NoRecon, "miss-loaded")

Recomputed(w, entitlement, entitlementState) ==
  LookupResult(entitlementState, entitlementState, [w EXCEPT !.db = entitlement],
               NoRecon, "expired-recomputed")

\* Expired that keeps the meter of the expired state (no forceRefresh)
ExpiredKeepsMeter(t, cached, w, records, rnd, entitlement) ==
  IF ~entitlement.exists THEN LookupResult(NoState, NoState, w, NoRecon, "expired-none")
  ELSE Recomputed(w, entitlement,
                  WithMeter(entitlement,
                            initializeUsageMeter(entitlement, cached, t, FALSE,
                                                 records, rnd)))

Expired(t, cached, w, records, rnd, entitlement) ==
  IF ~entitlement.exists THEN LookupResult(NoState, NoState, w, NoRecon, "expired-none")
  ELSE Recomputed(w, entitlement,
                  WithMeter(entitlement,
                            initializeUsageMeter(entitlement, cached, t, TRUE,
                                                 records, rnd)))

Reloaded(t, rnd, b) ==
  IF ~b.val.exists THEN LookupResult(NoState, NoState, b, NoRecon, "reload-none")
  ELSE Fired(b, [b.val EXCEPT !.nextRevalidateAt = t + revalidateInterval], t, rnd,
             "reloaded")

Stale(t, cached, status, method, records, rnd, a) ==
  IF ~a.val.exists THEN LookupResult(NoState, NoState, a, NoRecon, "stale-none")
  ELSE IF a.val.version # cached.version
  THEN Reloaded(t, rnd,
                getActiveEntitlement(TRUE, t, a, cached, status, method, records, rnd))
  ELSE Fired(a, [WithMeter(a.val, cached.meter) EXCEPT
                   !.nextRevalidateAt = t + revalidateInterval],
             t, rnd, "revalidated")

IsExpired(cached, t) ==
  cached.expiresAt # Null /\ cached.expiresAt # 0 /\ t >= cached.expiresAt

getStateWithRevalidation(t, cached, w, status, method, records, rnd) ==
  IF ~cached.exists
  THEN Missed(cached,
              getActiveEntitlement(FALSE, t, w, cached, status, method, records, rnd))
  ELSE IF IsExpired(cached, t)
  THEN Expired(t, cached, w, records, rnd, computeGrantsForCustomer(status, method, t))
  ELSE IF t >= cached.nextRevalidateAt
  THEN Stale(t, cached, status, method, records, rnd,
             getActiveEntitlement(FALSE, t, w, cached, status, method, records, rnd))
  ELSE LookupResult(cached, cached, w, NoRecon, "cached")

----------------------------------------------------------------------------
\* Results returned to the caller

NoVersion == <<[id |-> "-"]>>

Result(op, key, allowed, deniedReason, usage, alreadyRecorded, failed, version, path) ==
  [op |-> op, key |-> key, allowed |-> allowed, deniedReason |-> deniedReason,
   usage |-> usage, alreadyRecorded |-> alreadyRecorded, failed |-> failed,
   thrown |-> FALSE, version |-> version, path |-> path]

NoResult == Result("none", "", FALSE, "", 0, FALSE, FALSE, NoVersion, "")

NoProbe == [armed |-> FALSE, prevUsage |-> 0, delta |-> 0]

NoLastRecon ==
  [kind |-> "none", analyticsUsage |-> 0, snapshotUsage |-> 0, settledUsage |-> 0,
   hasResetConfig |-> FALSE, watermarkCycleStart |-> Null, currentCycleStart |-> Null]

NoPure == [phase |-> "idle"]

NoGrantRow == [id |-> "-"]

\* the grants table of a new project: no row, nothing done on it yet
NoGrants ==
  [rows |-> {}, op |-> "none", input |-> NoGrantRow, at |-> 0, err |-> "", created |-> {}]

\* a new actor: no alarm in its storage
NoAlarm ==
  [now |-> 0, alarms |-> {}, op |-> "none", flushTime |-> Null, at |-> 0,
   before |-> Null, advances |-> 0, appending |-> 0, buffered |-> 0]

\* start of the cycle of t on the reset grid
CycleStartOf(t) == calculateCycleWindow(0, Null, t, ResetConfig).start

\* the customer starts with the subscription grant or with no grant
InitialGrants == {{"g1"}, {}}

----------------------------------------------------------------------------
\* hashStringSHA256(key): one hash per key, no two keys with the same hash
hashStringSHA256(key) == <<"sha256", key>>

\* one apikey row, created with key 1; nothing cached, nothing called yet
NoApiKeys ==
  [hash |-> hashStringSHA256(1), issued |-> 1, cached |-> {}, op |-> "none",
   key |-> 0, ok |-> FALSE, rolled |-> {}]

\* concurrent calls of runAsync
Calls == {1, 2}

\* no context (getStore() gives undefined)
NoContext == 0

NoCall ==
  [phase |-> "idle", attributes |-> {}, added |-> {}, sampled |-> FALSE, emitted |-> {}]

\* no logger constructed yet
NoWideEvents ==
  [adapter |-> "none", fallback |-> NoContext, calls |-> [c \in Calls |-> NoCall]]

\* no reconcile called yet
NoReconRun ==
  [phase |-> "idle", state |-> NoState, at |-> 0, recon |-> NoRecon, queries |-> 0,
   stored |-> NoState]

\* features of one customer, each with its own entitlement
AclFeatures == {"api-calls", "seats"}

\* no entitlement state yet, the ACL flag customerUsageLimitReached not set
NoAcl ==
  [states |-> [f \in AclFeatures |-> NoState], customerUsageLimitReached |-> FALSE,
   op |-> "none", feature |-> "", deniedReason |-> "", blockCustomer |-> FALSE,
   keys |-> {}, key |-> "", usage |-> 0, alreadyRecorded |-> FALSE, reported |-> {}]

\* the service, its storage, the table and the caches before any request
Quiet ==
  /\ now = 1
  /\ dbEnt = {}
  /\ cacheEnt = NoEnt
  /\ negCache = FALSE
  /\ store = NoState
  /\ idemKeys = {}
  /\ buffer = {}
  /\ analytics = {}
  /\ inflight = {}
  /\ logs = <<>>
  /\ reqCount = 0
  /\ failures = 0
  /\ lastResult = NoResult
  /\ firstResult = [k \in Keys |-> NoResult]
  /\ applied = [k \in Keys |-> 0]
  /\ ryw = NoProbe
  /\ lastReqCycle = Null
  /\ preVersion = NoVersion
  /\ lastRecon = NoLastRecon
  /\ verifications = <<>>
  /\ grantsTable = NoGrants
  /\ alarmState = NoAlarm
  /\ aclState = NoAcl
  /\ reconRun = NoReconRun
  /\ apiKeyState = NoApiKeys
  /\ wideEvents = NoWideEvents

Init ==
  /\ agg \in AggMethods
  /\ grantStatus \in {[g \in GrantIds |-> IF g \in live THEN "live" ELSE "absent"]
                       : live \in InitialGrants}
  /\ Quiet
  /\ pure = NoPure

\* the lookup a handler starts with
Lookup(b) ==
  getStateWithRevalidation(now, store, [db |-> DbRow, cache |-> cacheEnt, neg |-> negCache],
                           grantStatus, agg, analytics, [before |-> b, after |-> b])

\* what every handler leaves behind besides its own writes
Served(L) ==
  /\ L.recon.started => (L.recon \in inflight \/ Cardinality(inflight) < MaxInflight)
  /\ dbEnt' = Stored(dbEnt, L.db)
  /\ cacheEnt' = L.cache
  /\ negCache' = L.neg
  /\ inflight' = IF L.recon.started THEN inflight \cup {L.recon} ELSE inflight
  /\ reqCount' = reqCount + 1
  /\ lastReqCycle' = IF L.state.exists THEN CycleStartOf(now) ELSE lastReqCycle
  /\ UNCHANGED <<now, agg, grantStatus, analytics, logs, preVersion, lastRecon, pure, grantsTable, alarmState, aclState, reconRun, apiKeyState, wideEvents>>

\* storage.insertVerification(v)
insertVerification(records, allowed, deniedReason) ==
  Append(records, [allowed |-> allowed, deniedReason |-> deniedReason])

\* Refusal that appends no verification record
RefusalUnrecorded(records, op, reason) == records

\* verification records after a refusal: verify appends one when no state exists
RefusalVerification(records, op, reason) ==
  IF op = "verify" /\ reason = "ENTITLEMENT_NOT_FOUND"
  THEN insertVerification(records, 0, reason)
  ELSE records

\* the handler returns before it reaches the meter
Refused(op, k, L, reason) ==
  /\ store' = L.store
  /\ lastResult' = Result(op, k, FALSE, reason, 0, FALSE, FALSE,
                          IF L.state.exists THEN L.state.version ELSE NoVersion, L.path)
  /\ verifications' = RefusalVerification(verifications, op, reason)
  /\ ryw' = NoProbe
  /\ UNCHANGED <<idemKeys, buffer, failures, firstResult, applied>>

\* an actor without the catch: the exception reaches the caller
Rethrown(op, k, deniedReason, L) ==
  [Result(op, k, FALSE, "", 0, FALSE, TRUE, L.state.version, L.path)
     EXCEPT !.thrown = TRUE]

\* what the caller of the actor gets when the service raised
Caught(op, k, deniedReason, L) ==
  Result(op, k, FALSE, deniedReason, 0, FALSE, TRUE, L.state.version, L.path)

\* the actor's verify: catch (error) returns deniedReason ENTITLEMENT_ERROR
VerifyResponse(fault, L, m) ==
  IF fault = "throw" THEN Caught("verify", "", "ENTITLEMENT_ERROR", L)
  ELSE Result("verify", "", m.allowed, m.deniedReason, m.meter.usage,
              FALSE, FALSE, L.state.version, L.path)

VerifyMetered(fault, L, v, m) ==
  /\ store' = IF fault = "none" THEN [v.state EXCEPT !.meter = m.meter] ELSE L.store
  /\ lastResult' = VerifyResponse(fault, L, m)
  /\ verifications' = insertVerification(verifications, IF m.allowed THEN 1 ELSE 0,
                                         m.deniedReason)
  /\ failures' = IF fault = "none" THEN failures ELSE failures + 1
  /\ ryw' = NoProbe
  /\ UNCHANGED <<idemKeys, buffer, firstResult, applied>>

VerifyValidated(u, fault, L, v) ==
  IF v.err # "" THEN fault = "none" /\ Refused("verify", "", L, "ENTITLEMENT_ERROR")
  ELSE VerifyMetered(fault, L, v, MeterVerify(v.state, u))

VerifyLooked(u, fault, L) ==
  /\ Served(L)
  /\ IF ~L.state.exists
     THEN fault = "none" /\ Refused("verify", "", L, "ENTITLEMENT_NOT_FOUND")
     ELSE VerifyValidated(u, fault, L, validateEntitlementState(L.state, now))

\* what the storage.set at the end of verify does: it writes, or it raises
VerifyFaults == {"none", "throw"}

\* verify(params): lookup, validation, usageMeter.verify, storage.set
Verify(u, fault) ==
  /\ reqCount < MaxRequests
  /\ fault # "none" => failures < MaxFailures
  /\ \E b \in BoundaryRandom : VerifyLooked(u, fault, Lookup(b))

StorageFaults == {"none", "err", "throw"}

\* the key was seen: the current meter is returned and nothing is written
AlreadyRecorded(k, L, v) ==
  /\ store' = L.store
  /\ lastResult' = Result("report", k, TRUE, "", v.state.meter.usage, TRUE, FALSE,
                          L.state.version, L.path)
  /\ ryw' = NoProbe
  /\ UNCHANGED <<idemKeys, buffer, verifications, failures, firstResult, applied>>

\* random parts no record id of this tick has taken
FreshRandom == {r \in RecordRandom : \A rec \in buffer \cup analytics : rec.id # Ulid(now, r)}

\* id: ulid()
FreshRecordId == Ulid(now, SetMin(FreshRandom))

\* consume, storage.set, insertUsageRecord and the response
Consumed(k, d, fault, L, v, c, res) ==
  /\ fault # "none" => c.allowed
  /\ (c.allowed /\ fault # "throw") => FreshRandom # {}
  /\ store' = IF fault = "none" THEN [v.state EXCEPT !.meter = c.meter] ELSE L.store
  /\ buffer' = IF c.allowed /\ fault # "throw"
               THEN buffer \cup {[id |-> FreshRecordId, usage |-> d, timestamp |-> now]}
               ELSE buffer
  /\ failures' = IF fault = "none" THEN failures ELSE failures + 1
  /\ lastResult' = res
  /\ firstResult' = [firstResult EXCEPT ![k] = res]
  /\ applied' = IF c.allowed /\ fault = "none" THEN [applied EXCEPT ![k] = @ + 1]
                ELSE applied
  /\ ryw' = IF c.allowed /\ fault = "none"
            THEN [armed |-> TRUE, prevUsage |-> v.state.meter.usage, delta |-> d]
            ELSE NoProbe
  /\ UNCHANGED verifications

\* the response: the meter decision, or the actor's catch when storage
\* raised, which returns {message, allowed: false} and no deniedReason
ReportResponse(k, fault, L, c) ==
  IF fault = "throw" THEN Caught("report", k, "", L)
  ELSE Result("report", k, c.allowed, c.deniedReason, c.meter.usage, FALSE, FALSE,
              L.state.version, L.path)

ReportMetered(k, d, fault, L, v, c) ==
  Consumed(k, d, fault, L, v, c, ReportResponse(k, fault, L, c))

\* ReportKeyed without the short-circuit on a seen key
ReportUnkeyed(k, d, fault, L, v, seen) ==
  /\ idemKeys' = seen.keys
  /\ ReportMetered(k, d, fault, L, v, MeterConsume(v.state, d))

ReportKeyed(k, d, fault, L, v, seen) ==
  IF seen.exists THEN fault = "none" /\ AlreadyRecorded(k, L, v)
  ELSE /\ idemKeys' = seen.keys
       /\ ReportMetered(k, d, fault, L, v, MeterConsume(v.state, d))

ReportValidated(k, d, fault, L, v) ==
  IF v.err # "" THEN fault = "none" /\ Refused("report", k, L, "ENTITLEMENT_ERROR")
  ELSE ReportKeyed(k, d, fault, L, v, hasIdempotenceKey(idemKeys, k))

ReportLooked(k, d, fault, L) ==
  /\ Served(L)
  /\ IF ~L.state.exists
     THEN fault = "none" /\ Refused("report", k, L, "ENTITLEMENT_NOT_FOUND")
     ELSE ReportValidated(k, d, fault, L, validateEntitlementState(L.state, now))

\* reportUsage(params).  fault is what the storage.set after consume does:
\* "none" writes, "err" returns an error result (which the handler does not
\* look at), "throw" raises (the actor's catch answers the caller).
ReportUsage(k, d, fault) ==
  /\ reqCount < MaxRequests
  /\ fault # "none" => failures < MaxFailures
  /\ \E b \in BoundaryRandom : ReportLooked(k, d, fault, Lookup(b))

\* analytics usage of the cycle that lies before the reconcile's watermark
SettledUsage(recon) ==
  getFeaturesUsageCursor(analytics, recon.entitlementState.aggregationMethod,
                         recon.entitlementState.featureType, EmptyId,
                         recon.beforeRecordId, recon.startAt).usage

ReconcileReturn(recon, res, aborted) ==
  /\ store' = ReconcilePersist(recon, res, store)
  /\ logs' = IF aborted THEN Append(logs, "Drift too large for sum") ELSE logs
  /\ lastRecon' = [kind |-> IF aborted THEN "aborted" ELSE "applied",
                   analyticsUsage |-> res.usage,
                   snapshotUsage |-> recon.meter.snapshotUsage,
                   settledUsage |-> SettledUsage(recon),
                   hasResetConfig |-> recon.entitlementState.hasResetConfig,
                   watermarkCycleStart |-> recon.watermarkCycleStart,
                   currentCycleStart |-> recon.currentCycleStart]

ReconcileResult(recon, res) ==
  ReconcileReturn(recon, res, DriftTooLarge(ReconcileDrift(recon, res.usage)))

\* the analytics query of an in-flight reconcile returns
ReconcileFinish(recon) ==
  /\ recon \in inflight
  /\ ReconcileResult(recon,
                     getFeaturesUsageCursor(analytics,
                                            recon.entitlementState.aggregationMethod,
                                            recon.entitlementState.featureType,
                                            recon.afterRecordId, recon.beforeRecordId,
                                            recon.startAt))
  /\ inflight' = inflight \ {recon}
  /\ UNCHANGED <<now, agg, grantStatus, dbEnt, cacheEnt, negCache, idemKeys, buffer,
                 analytics, verifications, reqCount, failures, lastResult, firstResult,
                 applied, ryw, lastReqCycle, preVersion, pure, grantsTable, alarmState, aclState, reconRun, apiKeyState, wideEvents>>

\* the alarm (or flush()) hands the buffered usage records and verification
\* records to analytics
Flush ==
  /\ buffer # {} \/ verifications # <<>>
  /\ analytics' = analytics \cup buffer
  /\ buffer' = {}
  /\ verifications' = <<>>
  /\ UNCHANGED <<now, agg, grantStatus, dbEnt, cacheEnt, negCache, store, idemKeys,
                 inflight, logs, reqCount, failures, lastResult, firstResult, applied,
                 ryw, lastReqCycle, preVersion, lastRecon, pure, grantsTable, alarmState, aclState, reconRun, apiKeyState, wideEvents>>

\* five minutes pass
Tick ==
  /\ now < MaxTime
  /\ now' = now + 1
  /\ ryw' = NoProbe
  /\ UNCHANGED <<agg, grantStatus, dbEnt, cacheEnt, negCache, store, idemKeys, buffer,
                 analytics, inflight, verifications, logs, reqCount, failures,
                 lastResult, firstResult, applied, lastReqCycle, preVersion, lastRecon,
                 pure, grantsTable, alarmState, aclState, reconRun, apiKeyState, wideEvents>>

\* version of the entitlement the grants table yields
VersionOfEntitlement(e) == IF e.exists THEN e.version ELSE <<>>

Mutated(status, before, after) ==
  /\ grantStatus' = status
  /\ preVersion' = IF after # before THEN before ELSE preVersion
  /\ ryw' = NoProbe
  /\ UNCHANGED <<now, agg, dbEnt, cacheEnt, negCache, store, idemKeys, buffer,
                 analytics, inflight, verifications, logs, reqCount, failures,
                 lastResult, firstResult, applied, lastReqCycle, lastRecon, pure, grantsTable, alarmState, aclState, reconRun, apiKeyState, wideEvents>>

GrantMutation(status) ==
  Mutated(status,
          VersionOfEntitlement(computeGrantsForCustomer(grantStatus, agg, now)),
          VersionOfEntitlement(computeGrantsForCustomer(status, agg, now)))

\* createGrant: a new row in the grants table
CreateGrant(g) ==
  /\ grantStatus[g] = "absent"
  /\ GrantMutation([grantStatus EXCEPT ![g] = "live"])

\* deleteGrant: soft delete
DeleteGrant(g) ==
  /\ grantStatus[g] = "live"
  /\ GrantMutation([grantStatus EXCEPT ![g] = "deleted"])

\* getActiveEntitlements as resetEntitlements calls it: the rows of the
\* table, or, when there are none, what computing from the grants gives
\* (the list cache and its negative key are empty whenever a reset starts:
\* the previous reset removed them and nothing else fills them)
ListedEntitlement(table, status, method, t) ==
  IF table # {} THEN getActiveEntitlementFromDB(table)
  ELSE computeGrantsForCustomer(status, method, t)

\* cache.customerEntitlement.remove(key) for each entitlement listed
PerFeatureCacheAfterReset(cache, listed) == IF listed.exists THEN NoEnt ELSE cache

\* resetEntitlements: removes the per-feature entries of the entitlements it
\* lists, the list entry, the negative key "negative:<project>:<customer>:all",
\* the ACL and the current-usage entry; storage.reset(); deletes the rows.
\* The per-feature negative key is not among the keys it removes.
ResetEntitlements ==
  /\ reqCount < MaxRequests
  /\ cacheEnt' = PerFeatureCacheAfterReset(cacheEnt,
                                          ListedEntitlement(dbEnt, grantStatus, agg, now))
  /\ negCache' = negCache
  /\ dbEnt' = {}
  /\ store' = NoState
  /\ reqCount' = reqCount + 1
  /\ lastResult' = Result("reset", "", TRUE, "", 0, FALSE, FALSE, NoVersion, "")
  /\ ryw' = NoProbe
  /\ UNCHANGED <<now, agg, grantStatus, idemKeys, buffer, analytics, inflight,
                 verifications, logs, failures, firstResult, applied, lastReqCycle,
                 preVersion, lastRecon, pure, grantsTable, alarmState, aclState, reconRun, apiKeyState, wideEvents>>

\* the cache entries of the feature run out of their time to live
CacheExpire ==
  /\ cacheEnt.exists \/ negCache
  /\ cacheEnt' = NoEnt
  /\ negCache' = FALSE
  /\ UNCHANGED <<now, agg, grantStatus, dbEnt, store, idemKeys, buffer, analytics,
                 inflight, verifications, logs, reqCount, failures, lastResult,
                 firstResult, applied, ryw, lastReqCycle, preVersion, lastRecon, pure, grantsTable, alarmState, aclState, reconRun, apiKeyState, wideEvents>>

\* grants a mutation may touch
Mutable == {"g2"}

Next ==
  \/ \E u \in VerifyUsages, f \in VerifyFaults : Verify(u, f)
  \/ \E k \in Keys, d \in Deltas, f \in StorageFaults : ReportUsage(k, d, f)
  \/ \E recon \in inflight : ReconcileFinish(recon)
  \/ Flush
  \/ Tick
  \/ \E g \in Mutable : CreateGrant(g)
  \/ \E g \in Mutable : DeleteGrant(g)
  \/ CacheExpire
  \/ ResetEntitlements

Spec == Init /\ [][Next]_vars

----------------------------------------------------------------------------
\* mergeGrants on its own: grant lists, feature types, usage modes and
\* explicit policies drawn from bounded sets, merged, then either merged
\* again or mutated and merged.

PureIds == <<"a", "b", "c">>
PureLimits == {Null, 0, 500, 1000}
PurePriorities == {10, 70}

PureGrant(id, limit, priority) ==
  [id |-> id, type |-> "subscription", name |-> "base", effectiveAt |-> 0,
   expiresAt |-> Null, limit |-> limit, priority |-> priority, config |-> "unit"]

\* lists of n grants with the first n ids
RECURSIVE PureGrantLists(_)
PureGrantLists(n) ==
  IF n = 0 THEN {<<>>}
  ELSE {Append(s, PureGrant(PureIds[n], l, p))
          : s \in PureGrantLists(n - 1), l \in PureLimits, p \in PurePriorities}

\* featureType, usageMode and explicit policy of a merge ("" is undefined)
MergeSetting(featureType, usageMode, policy) ==
  [featureType |-> featureType, usageMode |-> usageMode, policy |-> policy]

MergeSettings ==
  {MergeSetting("usage", "unit", ""), MergeSetting("usage", "tier", ""),
   MergeSetting("tier", "", ""), MergeSetting("flat", "", ""),
   MergeSetting("", "", ""), MergeSetting("usage", "unit", "min"),
   MergeSetting("flat", "", "sum")}

NoMerge ==
  [limit |-> Null, grants |-> <<>>, effectiveAt |-> 0, expiresAt |-> Null,
   mergingPolicy |-> ""]

NoBefore == [grants |-> <<>>, merged |-> NoMerge, version |-> NoVersion]

\* featurePlanVersion of a grant: feature slug, feature type, config (its
\* usageMode), aggregation method and metadata.overageStrategy
PlanVersion(slug, featureType, usageMode, method, overageStrategy) ==
  [featureSlug |-> slug, featureType |-> featureType, config |-> usageMode,
   aggregationMethod |-> method, overageStrategy |-> overageStrategy]

PlanVersions ==
  {PlanVersion(FeatureSlug, "usage", "unit", "sum", "none"),
   PlanVersion(FeatureSlug, "usage", "unit", "sum_all", "always"),
   PlanVersion(FeatureSlug, "usage", "unit", "sum", "last-call"),
   PlanVersion(FeatureSlug, "usage", "tier", "sum", "last-call"),
   PlanVersion(FeatureSlug, "tier", "", "sum_all", "none"),
   PlanVersion(FeatureSlug, "flat", "", "sum", "always"),
   PlanVersion("other", "usage", "unit", "sum", "none")}

PlannedLimits == {500}
PlannedExpiries == {Null, 3}

\* a grant as getGrantsForCustomer returns it, with its featurePlanVersion
PlannedGrant(id, limit, priority, expiresAt, plan) ==
  [id |-> id, type |-> "promotion", name |-> "base", priority |-> priority,
   limit |-> limit, effectiveAt |-> 0, expiresAt |-> expiresAt,
   config |-> plan.config, overageStrategy |-> plan.overageStrategy,
   featureSlug |-> plan.featureSlug, featureType |-> plan.featureType,
   aggregationMethod |-> plan.aggregationMethod]

RECURSIVE PlannedGrantLists(_)
PlannedGrantLists(n) ==
  IF n = 0 THEN {<<>>}
  ELSE {Append(s, PlannedGrant(PureIds[n], l, p, x, plan))
          : s \in PlannedGrantLists(n - 1), l \in PlannedLimits, p \in PurePriorities,
            x \in PlannedExpiries, plan \in PlanVersions}

NoComputed == [err |-> "", val |-> NoEnt]
NoValidated == [err |-> "", state |-> NoEnt]

PureInput(phase, grants, s) ==
  [phase |-> phase, grants |-> grants, setting |-> s, merged |-> NoMerge,
   version |-> NoVersion, before |-> NoBefore, again |-> NoMerge,
   computed |-> NoComputed, at |-> 0, validated |-> NoValidated]

MergeInit ==
  /\ agg = "sum"
  /\ grantStatus = [g \in GrantIds |-> "absent"]
  /\ Quiet
  /\ pure \in {PureInput("input", gs, s)
                 : gs \in UNION {PureGrantLists(n) : n \in 0..MaxGrants},
                   s \in MergeSettings}
               \cup {PureInput("granted", gs, MergeSetting("", "", ""))
                       : gs \in UNION {PlannedGrantLists(n) : n \in 0..MaxGrants}}

service == <<now, agg, grantStatus, dbEnt, cacheEnt, negCache, store, idemKeys,
             buffer, analytics, inflight, verifications, logs, reqCount, failures,
             lastResult, firstResult, applied, ryw, lastReqCycle, preVersion,
             lastRecon>>

MergedWith(grants, s) == mergeGrants(grants, s.featureType, s.usageMode, s.policy)

\* mergeGrants and the version computeEntitlementState derives from it
MergeGrants ==
  /\ pure.phase = "input"
  /\ pure' = [pure EXCEPT !.phase = "merged",
                          !.merged = MergedWith(pure.grants, pure.setting),
                          !.version = VersionOf(MergedWith(pure.grants, pure.setting).grants)]
  /\ UNCHANGED <<service, grantsTable, alarmState, aclState, reconRun, apiKeyState, wideEvents>>

\* how the retained grants are merged again: as computeEntitlementState
\* merges (same featureType, usageMode and explicit policy), or as
\* validateEntitlementState does (featureType and the state's mergingPolicy,
\* no usageMode)
RemergeSettings(s, merged) ==
  {s, MergeSetting(s.featureType, "", merged.mergingPolicy)}

Remerge(s) ==
  /\ pure.phase = "merged"
  /\ pure' = [pure EXCEPT !.phase = "remerged",
                          !.again = MergedWith(pure.merged.grants, s)]
  /\ UNCHANGED <<service, grantsTable, alarmState, aclState, reconRun, apiKeyState, wideEvents>>

\* values a mutation may give to a field of a grant
FieldValues(f) ==
  CASE f = "limit" -> PureLimits
    [] f = "effectiveAt" -> {0, 1}
    [] f = "expiresAt" -> {Null, 3}
    [] f = "priority" -> PurePriorities
    [] f = "type" -> {"subscription", "addon"}
    [] f = "name" -> {"base", "extra"}
    [] f = "config" -> {"unit", "tier"}

MutableFields == {"limit", "effectiveAt", "expiresAt", "priority", "type", "name", "config"}

RemoveAt(s, i) == [j \in 1..(Len(s) - 1) |-> IF j < i THEN s[j] ELSE s[j + 1]]

\* the grant lists one mutation away: a grant removed, a grant added, one
\* field of one grant given another value
MutationsOf(grants) ==
  {RemoveAt(grants, i) : i \in 1..Len(grants)}
    \cup (IF Len(grants) < MaxGrants
          THEN {Append(grants, PureGrant(PureIds[Len(grants) + 1], l, p))
                  : l \in PureLimits, p \in PurePriorities}
          ELSE {})
    \cup UNION {{[grants EXCEPT ![i][f] = v] : v \in FieldValues(f) \ {grants[i][f]}}
                  : i \in 1..Len(grants), f \in MutableFields}

\* a mutation of the grants, followed by the merge and the version of the
\* next computeEntitlementState
MutateGrants(grants) ==
  /\ pure.phase = "merged"
  /\ pure' = [pure EXCEPT !.phase = "mutated",
                          !.grants = grants,
                          !.merged = MergedWith(grants, pure.setting),
                          !.version = VersionOf(MergedWith(grants, pure.setting).grants),
                          !.before = [grants |-> pure.grants, merged |-> pure.merged,
                                      version |-> pure.version]]
  /\ UNCHANGED <<service, grantsTable, alarmState, aclState, reconRun, apiKeyState, wideEvents>>

\* computeEntitlementState({grants})
ComputeEntitlementState ==
  /\ pure.phase = "granted"
  /\ pure' = [pure EXCEPT !.phase = "computed",
                          !.computed = computeEntitlementState(pure.grants, now)]
  /\ UNCHANGED <<service, grantsTable, alarmState, aclState, reconRun, apiKeyState, wideEvents>>

\* times at which a computed entitlement is validated
ValidateTimes == {1, 3}

\* validateEntitlementState({state, now}) on a computed entitlement
ValidateEntitlementState(t) ==
  /\ pure.phase = "computed"
  /\ pure.computed.err = ""
  /\ pure' = [pure EXCEPT !.phase = "validated",
                          !.at = t,
                          !.validated = validateEntitlementState(pure.computed.val, t)]
  /\ UNCHANGED <<service, grantsTable, alarmState, aclState, reconRun, apiKeyState, wideEvents>>

MergeNext ==
  \/ MergeGrants
  \/ ComputeEntitlementState
  \/ \E t \in ValidateTimes : ValidateEntitlementState(t)
  \/ \E s \in RemergeSettings(pure.setting, pure.merged) : Remerge(s)
  \/ \E grants \in MutationsOf(pure.grants) : MutateGrants(grants)

MergeSpec == MergeInit /\ [][MergeNext]_vars

----------------------------------------------------------------------------
\* Steps, as seen on the variables

RequestStep == reqCount' = reqCount + 1
VerifyStep == RequestStep /\ lastResult'.op = "verify"
ReportStep == RequestStep /\ lastResult'.op = "report"
ReconcileStep == reqCount' = reqCount /\ inflight' # inflight
SeenKeyStep == ReportStep /\ lastResult'.alreadyRecorded

----------------------------------------------------------------------------
\* C1: a reportUsage whose idempotence key was already seen leaves the
\* persisted meter as it found it, and the usage of one key is applied to
\* the persisted meter at most once however often the request is repeated.
C1_IdempotentReport ==
  [][/\ \A k \in Keys : applied'[k] <= 1
     /\ (SeenKeyStep /\ store.exists /\ ~IsExpired(store, now))
          => (store'.exists /\ store'.meter = store.meter)]_vars

\* a repeated request was answered as already recorded after its usage was applied
C1_Witness ==
  /\ lastResult.alreadyRecorded
  /\ applied[lastResult.key] = 1
  /\ store.exists

\* C2: with no storage fault in play, a reportUsage whose key was already
\* seen returns the result of the first call with that key: same allowed
\* flag, deniedReason and usage.
C2_ReturnsFirstResult ==
  (lastResult.alreadyRecorded /\ failures = 0) =>
    /\ lastResult.allowed = firstResult[lastResult.key].allowed
    /\ lastResult.deniedReason = firstResult[lastResult.key].deniedReason
    /\ lastResult.usage = firstResult[lastResult.key].usage

\* C3: when the first attempt with a key failed before its usage reached the
\* persisted meter, a retry with the same key is not answered as already
\* recorded.
C3_RetryApplies ==
  (/\ lastResult.op = "report"
   /\ firstResult[lastResult.key].failed
   /\ applied[lastResult.key] = 0)
    => ~lastResult.alreadyRecorded

\* C4: the verify that directly follows an allowed reportUsage(delta) on a
\* sum meter returns usage >= prevUsage + delta.
C4_ReadYourWrites ==
  [][(VerifyStep /\ ryw.armed /\ AGGREGATION_CONFIG(agg).behavior = "sum"
        /\ lastResult'.deniedReason \notin {"ENTITLEMENT_NOT_FOUND", "ENTITLEMENT_ERROR"})
       => lastResult'.usage >= ryw.prevUsage + ryw.delta]_vars

\* usage recorded since the start of the cycle of now
CycleUsage ==
  getFeaturesUsageCursor(analytics \cup buffer, agg, FeatureType, EmptyId,
                         Ulid(now + 1, 0), CycleStartOf(now)).usage

C6_NoPreMutationVersion ==
  [][(/\ RequestStep
      /\ preVersion # NoVersion
      /\ VersionOfEntitlement(computeGrantsForCustomer(grantStatus, agg, now)) # preVersion)
       => lastResult'.version # preVersion]_vars

\* C6, amended: a lookup that is due for revalidation and finds the cached
\* entitlement at another version than its stored state reloads from the
\* entitlements table; the state it stores and hands to the handler carries
\* the version of the table row.
C6_MismatchReloads ==
  [][(RequestStep /\ lastResult'.path = "reloaded")
       => /\ DbRow'.exists
          /\ store'.exists
          /\ store'.version = DbRow'.version
          /\ lastResult'.version = DbRow'.version]_vars

\* a request took the reload path while the cache still held another version
C6_Witness ==
  /\ lastResult.path = "reloaded"
  /\ cacheEnt.exists
  /\ DbRow.exists
  /\ cacheEnt.version # DbRow.version
  /\ store.version = DbRow.version

\* C7: a reconcile whose analytics usage differs from the snapshot usage by
\* more than MAX_DRIFT leaves storage as it was and logs one error.
C7_DriftAbort ==
  [][(ReconcileStep /\ Abs(lastRecon'.analyticsUsage - lastRecon'.snapshotUsage) > MAX_DRIFT)
       => /\ store' = store
          /\ logs' = Append(logs, "Drift too large for sum")]_vars

\* a reconcile was aborted for a drift above MAX_DRIFT
C7_Witness ==
  /\ lastRecon.kind = "aborted"
  /\ Abs(lastRecon.analyticsUsage - lastRecon.snapshotUsage) > MAX_DRIFT
  /\ Len(logs) > 0

\* C8: after a reconcile that was not aborted, the usage on the stored meter
\* is within MAX_DRIFT of the settled analytics usage.
C8_UsageWithinDrift ==
  [][(ReconcileStep /\ lastRecon'.kind = "applied")
       => Abs(store'.meter.usage - lastRecon'.settledUsage) <= MAX_DRIFT]_vars

\* C8, amended: after a reconcile that was not aborted, the analytics usage
\* it read is within MAX_DRIFT of the snapshot usage on the stored meter.
C8_SnapshotWithinDrift ==
  [][(ReconcileStep /\ lastRecon'.kind = "applied")
       => Abs(lastRecon'.analyticsUsage - store'.meter.snapshotUsage) <= MAX_DRIFT]_vars

\* a reconcile that read usage from analytics was applied
C8_Witness ==
  /\ lastRecon.kind = "applied"
  /\ lastRecon.analyticsUsage > 0
  /\ store.exists

\* C9: while the stored meter stays in one cycle, its lastReconciledId never
\* decreases.
C9_MonotonicCursor ==
  [][(/\ store.exists
      /\ store'.exists
      /\ store'.meter.lastCycleStart = store.meter.lastCycleStart
      /\ CycleStartOf(now') = CycleStartOf(now))
       => store'.meter.lastReconciledId >= store.meter.lastReconciledId]_vars

\* C10: a reconcile of an entitlement with a reset config writes to storage
\* only if, when it ran its checks, the cycle window of the watermark and
\* the cycle window of the current time started at the same instant.
C10_CycleAlignment ==
  [][(/\ ReconcileStep
      /\ lastRecon'.hasResetConfig
      /\ (lastRecon'.kind = "applied" \/ store' # store))
       => /\ lastRecon'.watermarkCycleStart # Null
          /\ lastRecon'.watermarkCycleStart = lastRecon'.currentCycleStart]_vars

\* a reconcile of an entitlement with a reset config was applied
C10_Witness ==
  /\ lastRecon.kind = "applied"
  /\ lastRecon.hasResetConfig
  /\ lastRecon.watermarkCycleStart = lastRecon.currentCycleStart

----------------------------------------------------------------------------
\* C11: every verify or reportUsage result with allowed = false carries a
\* deniedReason, the results of the actor's catch included.
C11_DeniedHasReason ==
  (lastResult.op \in {"verify", "report"} /\ ~lastResult.allowed)
    => lastResult.deniedReason # ""

\* C12: no verify or reportUsage throws to the caller; a request during
\* which an exception was raised is answered with a result whose allowed is
\* false.
C12_NeverThrows ==
  /\ ~lastResult.thrown
  /\ lastResult.failed => ~lastResult.allowed

\* a request during which storage raised was answered with a result
C12_Witness ==
  /\ lastResult.failed
  /\ lastResult.op \in {"verify", "report"}
  /\ failures = 1

\* lookup outcomes that hand no entitlement state to the handler
NonePaths == {"miss-none", "expired-none", "stale-none", "reload-none"}

NotFoundRecord == [allowed |-> 0, deniedReason |-> "ENTITLEMENT_NOT_FOUND"]

\* C13: a verify whose lookup yields no entitlement state returns
\* allowed = false with deniedReason ENTITLEMENT_NOT_FOUND and appends exactly
\* one verification record, with allowed = 0 and that deniedReason.
C13_NotFoundRecorded ==
  [][(VerifyStep /\ lastResult'.path \in NonePaths)
       => /\ ~lastResult'.allowed
          /\ lastResult'.deniedReason = "ENTITLEMENT_NOT_FOUND"
          /\ verifications' = Append(verifications, NotFoundRecord)]_vars

\* a verify found no entitlement and its verification record is buffered
C13_Witness ==
  /\ lastResult.op = "verify"
  /\ lastResult.path \in NonePaths
  /\ Len(verifications) > 0
  /\ verifications[Len(verifications)] = NotFoundRecord

ResetStep == RequestStep /\ lastResult'.op = "reset"

\* C14: after resetEntitlements the actor storage holds no entitlement
\* state, the table holds no row of the customer, and neither the
\* per-feature entitlement entry nor the per-feature negative entry is left
\* in the cache.
C14_ResetClearsAll ==
  [][ResetStep
       => /\ store' = NoState
          /\ dbEnt' = {}
          /\ cacheEnt' = NoEnt
          /\ negCache' = FALSE]_vars

\* the entitlement the grants live now give, and the meter read afresh
\* from analytics for it
ComputedNow == computeGrantsForCustomer(grantStatus, agg, now)
FreshMeter(entitlement) ==
  initializeUsageMeter(entitlement, NoState, now, TRUE, analytics,
                       [before |-> CHOOSE b \in BoundaryRandom : TRUE,
                        after |-> CHOOSE b \in BoundaryRandom : TRUE])

\* C15: a verify or reportUsage that finds the stored state expired
\* (expiresAt set and now >= expiresAt) recomputes from the grants live now:
\* with no entitlement produced the stored state is deleted and the request
\* answered ENTITLEMENT_NOT_FOUND; otherwise the stored state is the computed
\* entitlement with a meter read afresh from analytics (on which a
\* reportUsage may then have consumed).
C15_ExpiredRecomputes ==
  [][(/\ RequestStep
      /\ lastResult'.op \in {"verify", "report"}
      /\ store.exists
      /\ IsExpired(store, now))
       => IF ~ComputedNow.exists
          THEN /\ store' = NoState
               /\ lastResult'.deniedReason = "ENTITLEMENT_NOT_FOUND"
          ELSE /\ store'.exists
               /\ store'.version = ComputedNow.version
               /\ store'.limit = ComputedNow.limit
               /\ store'.meter.snapshotUsage = FreshMeter(ComputedNow).snapshotUsage
               /\ store'.meter.lastReconciledId = FreshMeter(ComputedNow).lastReconciledId
               /\ store'.meter.lastCycleStart = FreshMeter(ComputedNow).lastCycleStart
               /\ (lastResult'.op = "verify"
                     => store'.meter.usage = FreshMeter(ComputedNow).usage)]_vars

\* an expired state was replaced by a recomputed one
C15_Witness ==
  /\ lastResult.path = "expired-recomputed"
  /\ store.exists
  /\ ~IsExpired(store, now)

\* C16: a verify whose stale lookup finds another version than the stored
\* state's and reloads from the table stores a meter read afresh from
\* analytics.
C16_ReloadReinitializes ==
  [][(VerifyStep /\ lastResult'.path = "reloaded" /\ ~lastResult'.failed)
       => store'.meter = FreshMeter(DbRow')]_vars

\* C16, amended: a verify whose stale lookup finds another version than the
\* stored state's reloads the entitlement from the table and keeps the meter
\* of the stored state.
C16_ReloadKeepsMeter ==
  [][(VerifyStep /\ lastResult'.path = "reloaded" /\ ~lastResult'.failed)
       => /\ store'.version = DbRow'.version
          /\ store'.meter = store.meter]_vars

\* a verify reloaded on a version mismatch while the meter held usage
C16_Witness ==
  /\ lastResult.op = "verify"
  /\ lastResult.path = "reloaded"
  /\ store.exists
  /\ store.meter.usage > 0

\* C17: the entitlements table never holds more than one row for the
\* (customer, project, feature).
C17_OneEntitlementRow == Cardinality(dbEnt) <= 1

\* an entitlement was recomputed while its row was in the table
C17_Witness ==
  /\ lastResult.path = "expired-recomputed"
  /\ Cardinality(dbEnt) = 1

PolicyOf(s) == DerivePolicy(s.featureType, s.usageMode, s.policy)

C19_MergeFixedPoint ==
  (pure.phase = "remerged" /\ pure.grants # <<>>)
    => /\ pure.again.limit = pure.merged.limit
       /\ pure.again.grants = pure.merged.grants
       /\ pure.again.effectiveAt = pure.merged.effectiveAt
       /\ pure.again.expiresAt = pure.merged.expiresAt
       /\ pure.again.mergingPolicy = pure.merged.mergingPolicy

\* a merge that dropped a grant was merged again
C19_Witness ==
  /\ pure.phase = "remerged"
  /\ Len(pure.grants) = 2
  /\ Len(pure.merged.grants) = 1
  /\ pure.merged.limit # Null
  /\ pure.again = pure.merged

\* g.limit ?? 0, summed over the list
RECURSIVE LimitSum(_)
LimitSum(grants) ==
  IF grants = <<>> THEN 0
  ELSE (IF Head(grants).limit = Null THEN 0 ELSE Head(grants).limit)
         + LimitSum(Tail(grants))

\* C20: under the sum policy the merged limit is the arithmetic sum of the
\* grants' limits, a null limit counting as 0.
C20_SumOfLimits ==
  (pure.phase = "merged" /\ pure.grants # <<>> /\ PolicyOf(pure.setting) = "sum")
    => pure.merged.limit = LimitSum(pure.grants)

\* limits of a grant list that are set
LimitsOf(grants) == {grants[i].limit : i \in 1..Len(grants)} \ {Null}

\* C21: under the max policy exactly one grant is retained and the merged
\* limit is its limit; when some grant has a limit, the retained grant has
\* the largest limit, and no grant with that limit has a higher priority.
C21_MaxKeepsLargest ==
  (pure.phase = "merged" /\ pure.grants # <<>> /\ PolicyOf(pure.setting) = "max")
    => /\ Len(pure.merged.grants) = 1
       /\ pure.merged.grants[1] \in SeqRange(pure.grants)
       /\ pure.merged.limit = pure.merged.grants[1].limit
       /\ \A i \in 1..Len(pure.grants) :
            pure.grants[i].limit # Null
              => /\ pure.merged.limit # Null
                 /\ pure.grants[i].limit <= pure.merged.limit
                 /\ (pure.grants[i].limit = pure.merged.limit
                       => pure.grants[i].priority <= pure.merged.grants[1].priority)

\* under max, of two grants the one with the lower priority and the larger
\* limit was retained
C21_Witness ==
  /\ pure.phase = "merged"
  /\ PolicyOf(pure.setting) = "max"
  /\ Len(pure.grants) = 2
  /\ LimitsOf(pure.grants) = {500, 1000}
  /\ pure.merged.limit = 1000
  /\ \E i \in 1..2 : pure.grants[i].priority > pure.merged.grants[1].priority

\* a computeEntitlementState call that returned an entitlement
Computed == pure.phase = "computed" /\ pure.computed.err = ""

\* the first of the grants with the highest priority
BestOf(grants) ==
  grants[CHOOSE i \in 1..Len(grants) :
           /\ \A j \in 1..Len(grants) : grants[j].priority <= grants[i].priority
           /\ \A j \in 1..(i - 1) : grants[j].priority < grants[i].priority]

PolicyTable(featureType, usageMode) ==
  CASE featureType = "usage" /\ usageMode = "tier" -> "max"
    [] featureType = "usage" /\ usageMode # "tier" -> "sum"
    [] featureType \in {"tier", "package"} -> "max"
    [] OTHER -> "replace"

\* C22: the merging policy of a computed entitlement is the one the feature
\* type and usage mode of the highest-priority grant give: usage with
\* usageMode tier gives max, usage otherwise sum, tier or package max, flat
\* or anything else replace.
C22_PolicyFromBestGrant ==
  Computed
    => pure.computed.val.mergingPolicy
         = PolicyTable(BestOf(pure.grants).featureType, BestOf(pure.grants).config)

\* two grants whose feature types give different policies were merged
\* under the policy of the one with the higher priority, given second
C22_Witness ==
  /\ Computed
  /\ Len(pure.grants) = 2
  /\ pure.grants[2].priority > pure.grants[1].priority
  /\ PolicyTable(pure.grants[1].featureType, pure.grants[1].config) = "sum"
  /\ PolicyTable(pure.grants[2].featureType, pure.grants[2].config) = "replace"
  /\ pure.computed.val.mergingPolicy = "replace"

StrategiesOf(grants) == {grants[i].overageStrategy : i \in 1..Len(grants)}

\* the grant whose snapshot is the first of the retained grants
WinnerOf(grants, entitlement) ==
  grants[CHOOSE i \in 1..Len(grants) : grants[i].id = entitlement.grants[1].id]

\* C23: the overage strategy of a computed entitlement is, for policy sum
\* or max, always if any grant has always, else last-call if any has
\* last-call, else the winning grant's; for policy min, none if any grant
\* has none, else last-call if any has last-call, else always; for policy
\* replace, the winning grant's.
C23_OverageMerge ==
  Computed
    => pure.computed.val.overageStrategy
         = CASE pure.computed.val.mergingPolicy \in {"sum", "max"} ->
                  (IF "always" \in StrategiesOf(pure.grants) THEN "always"
                   ELSE IF "last-call" \in StrategiesOf(pure.grants) THEN "last-call"
                   ELSE WinnerOf(pure.grants, pure.computed.val).overageStrategy)
              [] pure.computed.val.mergingPolicy = "min" ->
                  (IF "none" \in StrategiesOf(pure.grants) THEN "none"
                   ELSE IF "last-call" \in StrategiesOf(pure.grants) THEN "last-call"
                   ELSE "always")
              [] OTHER -> WinnerOf(pure.grants, pure.computed.val).overageStrategy

\* under max the winning grant has strategy none and the entitlement got
\* last-call from the other grant
C23_Witness ==
  /\ Computed
  /\ pure.computed.val.mergingPolicy = "max"
  /\ WinnerOf(pure.grants, pure.computed.val).overageStrategy = "none"
  /\ pure.computed.val.overageStrategy = "last-call"

\* C24: computeEntitlementState returns an error and no entitlement when
\* the grant list is empty or when the grants do not all have the same
\* feature slug, and an entitlement otherwise.
C24_ComputeErrors ==
  pure.phase = "computed"
    => IF pure.grants = <<>>
       THEN pure.computed.err = "No grants provided" /\ ~pure.computed.val.exists
       ELSE IF \E i, j \in 1..Len(pure.grants) :
                 pure.grants[i].featureSlug # pure.grants[j].featureSlug
       THEN /\ pure.computed.err = "All grants must have the same feature slug"
            /\ ~pure.computed.val.exists
       ELSE pure.computed.err = "" /\ pure.computed.val.exists

\* grants of two features were refused
C24_Witness ==
  /\ pure.phase = "computed"
  /\ Len(pure.grants) = 2
  /\ pure.grants[1].featureSlug # pure.grants[2].featureSlug
  /\ pure.computed.err # ""
  /\ ~pure.computed.val.exists

\* the range of all grants: earliest effectiveAt, latest expiresAt (null if
\* none is set)
MergedRange(grants) ==
  [effectiveAt |-> SetMin({grants[i].effectiveAt : i \in 1..Len(grants)}),
   expiresAt |-> IF \A i \in 1..Len(grants) : grants[i].expiresAt = Null THEN Null
                 ELSE SetMax({grants[i].expiresAt : i \in 1..Len(grants)})]

\* C25: the effectiveAt / expiresAt of a computed entitlement are the merged
\* range of its grants when the aggregation method has lifetime scope, and
\* the cycle window that contains now when it has period scope.
C25_RangeByScope ==
  Computed
    => IF AggResets(pure.computed.val.aggregationMethod)
       THEN /\ pure.computed.val.effectiveAt
                 = calculateCycleWindow(MergedRange(pure.grants).effectiveAt,
                                        MergedRange(pure.grants).expiresAt,
                                        now, ResetConfig).start
            /\ pure.computed.val.expiresAt
                 = calculateCycleWindow(MergedRange(pure.grants).effectiveAt,
                                        MergedRange(pure.grants).expiresAt,
                                        now, ResetConfig).end
       ELSE /\ pure.computed.val.effectiveAt = MergedRange(pure.computed.val.grants).effectiveAt
            /\ pure.computed.val.expiresAt = MergedRange(pure.computed.val.grants).expiresAt

\* the grants of a state that are active at t, in input order
StillActive(state, t) == SelectSeq(state.grants, LAMBDA g : isGrantActive(g, t))

\* C30: the limit of a validated state is the limit obtained by merging
\* again only the grants of the entitlement that are active at the time of
\* validation, whenever the cached entitlement itself has not expired.
C30_ValidatedLimitRemerged ==
  (/\ pure.phase = "validated"
   /\ pure.validated.err = ""
   /\ ~IsExpired(pure.computed.val, pure.at))
    => pure.validated.state.limit
         = mergeGrants(StillActive(pure.computed.val, pure.at),
                       pure.computed.val.featureType, "",
                       pure.computed.val.mergingPolicy).limit

-----------------------------------------------------------------------------
\* The grants table on its own: createGrant and renewGrantsForCustomer on
\* the rows of one customer, with the grant and the time of the call drawn
\* from bounded sets.

\* rows the table may hold
MaxRows == 3

NewGrantIds == {"n1", "n2"}
NewGrantTypes == {"promotion", "subscription"}
NewGrantExpiries == {Null, 3}

priorityMap(type) ==
  CASE type = "subscription" -> 10
    [] type = "addon" -> 20
    [] type = "trial" -> 60
    [] type = "promotion" -> 70
    [] OTHER -> 80

\* a grant handed to createGrant
NewGrant(id, type, expiresAt, autoRenew) ==
  [id |-> id, projectId |-> "proj", subjectId |-> "cus", subjectType |-> "customer",
   type |-> type, priority |-> 0, effectiveAt |-> 0, expiresAt |-> expiresAt,
   featurePlanVersionId |-> "fpv", autoRenew |-> autoRenew, deleted |-> FALSE]

NewGrants ==
  {NewGrant(id, type, e, r)
     : id \in NewGrantIds, type \in NewGrantTypes, e \in NewGrantExpiries, r \in BOOLEAN}

\* the target of onConflictDoNothing; a null expiresAt is compared as a value
ConflictTarget(g) ==
  <<g.projectId, g.subjectId, g.subjectType, g.type, g.effectiveAt, g.expiresAt,
    g.featurePlanVersionId>>

Inserted(rows, row) == [err |-> "", rows |-> rows \cup {row}, val |-> row]

\* an insert that ignores the conflict target
InsertAnyway(conflict, rows, row) == Inserted(rows, row)

\* insert(...).onConflictDoNothing({target}).returning(): no row comes back
\* on a conflict
InsertUnlessConflict(conflict, rows, row) ==
  IF conflict
  THEN [err |-> "Failed to create grant", rows |-> rows, val |-> NoGrantRow]
  ELSE Inserted(rows, row)

\* createGrant: [err, rows, val]
createGrant(rows, newGrant) ==
  InsertUnlessConflict(\E r \in rows : ConflictTarget(r) = ConflictTarget(newGrant),
                       rows,
                       [newGrant EXCEPT !.priority = priorityMap(newGrant.type)])

\* the grants query of getGrantsForCustomer({now})
LiveRows(rows, t) ==
  {r \in rows : ~r.deleted /\ r.effectiveAt <= t /\ (r.expiresAt = Null \/ r.expiresAt > t)}

\* every grant is renewed, whatever its type and autoRenew
RenewEvery(rows, t) == LiveRows(rows, t)

autoRenewGrants(rows, t) ==
  {g \in LiveRows(rows, t) : g.autoRenew /\ g.type # "trial" /\ g.type # "subscription"}

\* {...grant, effectiveAt: cycle.start, expiresAt: cycle.end}
RenewedGrant(grant, cycle) ==
  [grant EXCEPT !.effectiveAt = cycle.start, !.expiresAt = cycle.end]

CycleOf(grant, t) == calculateCycleWindow(grant.effectiveAt, grant.expiresAt, t, ResetConfig)

\* one turn of the loop: createGrant, its row pushed unless it failed
RenewStep(acc, res) ==
  [rows |-> res.rows,
   created |-> IF res.err = "" THEN acc.created \cup {res.val} ELSE acc.created]

RECURSIVE RenewLoop(_, _, _)
RenewLoop(acc, order, t) ==
  IF order = <<>> THEN acc
  ELSE RenewLoop(RenewStep(acc, createGrant(acc.rows,
                                            RenewedGrant(order[1], CycleOf(order[1], t)))),
                 Tail(order), t)

\* the orders in which the query may return grants of equal priority
Orders(S) ==
  {s \in [1..Cardinality(S) -> S] : \A i, j \in 1..Cardinality(S) : s[i] = s[j] => i = j}

LastCall(op, input, t, err, rows, created) ==
  [rows |-> rows, op |-> op, input |-> input, at |-> t, err |-> err, created |-> created]

\* createGrant({grant})
InsertGrant(grant) ==
  /\ Cardinality(createGrant(grantsTable.rows, grant).rows) <= MaxRows
  /\ grantsTable' = LastCall("create", grant, 0,
                             createGrant(grantsTable.rows, grant).err,
                             createGrant(grantsTable.rows, grant).rows, {})
  /\ UNCHANGED <<service, pure, alarmState, aclState, reconRun, apiKeyState, wideEvents>>

RenewTimes == 0..MaxTime

\* renewGrantsForCustomer({now: t}), the grants returned in the given order
RenewGrants(t, order) ==
  /\ Cardinality(RenewLoop([rows |-> grantsTable.rows, created |-> {}], order, t).rows)
       <= MaxRows
  /\ grantsTable' =
       LastCall("renew", NoGrantRow, t, "",
                RenewLoop([rows |-> grantsTable.rows, created |-> {}], order, t).rows,
                RenewLoop([rows |-> grantsTable.rows, created |-> {}], order, t).created)
  /\ UNCHANGED <<service, pure, alarmState, aclState, reconRun, apiKeyState, wideEvents>>

GrantInit ==
  /\ agg = "sum"
  /\ grantStatus = [g \in GrantIds |-> "absent"]
  /\ Quiet
  /\ pure = NoPure

GrantNext ==
  \/ \E grant \in NewGrants : InsertGrant(grant)
  \/ \E t \in RenewTimes :
       \E order \in Orders(autoRenewGrants(grantsTable.rows, t)) : RenewGrants(t, order)

GrantSpec == GrantInit /\ [][GrantNext]_vars

\* g and h agree on the seven fields of the conflict key
SameKey(g, h) ==
  /\ g.projectId = h.projectId
  /\ g.subjectId = h.subjectId
  /\ g.subjectType = h.subjectType
  /\ g.type = h.type
  /\ g.effectiveAt = h.effectiveAt
  /\ g.expiresAt = h.expiresAt
  /\ g.featurePlanVersionId = h.featurePlanVersionId

\* a createGrant call on a table that holds a grant with the key of its grant
ConflictingCreate ==
  /\ grantsTable'.op = "create"
  /\ \E r \in grantsTable.rows : SameKey(r, grantsTable'.input)

Renewable(g, t) ==
  /\ ~g.deleted
  /\ g.effectiveAt <= t
  /\ (g.expiresAt = Null \/ t < g.expiresAt)
  /\ g.autoRenew
  /\ g.type \notin {"subscription", "trial"}

\* r is g moved to the cycle window that contains t
RenewalOf(r, g, t) ==
  /\ r = [g EXCEPT !.effectiveAt = CycleOf(g, t).start, !.expiresAt = CycleOf(g, t).end]
  /\ r.effectiveAt <= t
  /\ t < r.expiresAt

-----------------------------------------------------------------------------
\* The flush alarm of the actor on its own: ensureAlarmIsSet as verify and
\* reportUsage call it, the alarm handler, and the clock, in milliseconds.

\* steps of the clock
MaxAdvances == 3

TTL_ANALYTICS == 60000

\* data.flushTime in seconds; Null when the request has none
FlushTimes == {Null, 0, 3, 60, 1800, 5000}

ClockSteps == {1000, 5000, 60000, 1800000}

\* flushTime ?? TTL without the bounds
Unbounded(flushTime) == IF flushTime = Null THEN TTL_ANALYTICS \div 1000 ELSE flushTime

\* Math.min(Math.max(flushTime ?? this.TTL_ANALYTICS / 1000, 5), 30 * 60)
flushSec(flushTime) ==
  Min2(Max2(IF flushTime = Null THEN TTL_ANALYTICS \div 1000 ELSE flushTime, 5), 30 * 60)

nextAlarm(t, flushTime) == t + flushSec(flushTime) * 1000

\* ctx.storage.getAlarm(): the pending alarm or null
getAlarm(alarms) == IF alarms = {} THEN Null ELSE CHOOSE a \in alarms : TRUE

\* ctx.storage.setAlarm(time): the actor has one alarm, a new one replaces it
setAlarm(alarms, time) == {time}

deleteAlarm(alarms) == {}

ensureAlarmIsSet(alarms, alarm, t, flushTime) ==
  IF alarm = Null \/ alarm = 0 THEN setAlarm(alarms, nextAlarm(t, flushTime))
  ELSE IF alarm < t THEN setAlarm(deleteAlarm(alarms), nextAlarm(t, flushTime))
  ELSE alarms

\* records the actor's buffers and its background appends may hold together
MaxBuffered == 2

\* verify / reportUsage: the service hands its record to waitUntil and
\* returns, then ensureAlarmIsSet(data.flushTime)
EnsureAlarmIsSet(flushTime) ==
  /\ alarmState.appending + alarmState.buffered < MaxBuffered
  /\ alarmState' = [alarmState EXCEPT
                      !.appending = @ + 1,
                      !.alarms = ensureAlarmIsSet(alarmState.alarms,
                                                  getAlarm(alarmState.alarms),
                                                  alarmState.now, flushTime),
                      !.op = "ensure",
                      !.flushTime = flushTime,
                      !.at = alarmState.now,
                      !.before = getAlarm(alarmState.alarms)]
  /\ UNCHANGED <<service, pure, grantsTable, aclState, reconRun, apiKeyState, wideEvents>>

\* verify: the record is handed to waitUntil, then storage.set raises; the
\* actor's catch answers and ensureAlarmIsSet is not reached
ServiceThrows ==
  /\ alarmState.appending + alarmState.buffered < MaxBuffered
  /\ alarmState' = [alarmState EXCEPT !.appending = @ + 1, !.op = "throw",
                                      !.at = alarmState.now,
                                      !.before = getAlarm(alarmState.alarms)]
  /\ UNCHANGED <<service, pure, grantsTable, aclState, reconRun, apiKeyState, wideEvents>>

\* an insertVerification / insertUsageRecord given to waitUntil completes
AppendCompletes ==
  /\ alarmState.appending > 0
  /\ alarmState' = [alarmState EXCEPT !.appending = @ - 1, !.buffered = @ + 1]
  /\ UNCHANGED <<service, pure, grantsTable, aclState, reconRun, apiKeyState, wideEvents>>

\* the alarm is due: the runtime takes it out of the storage and runs
\* onAlarm, which flushes the buffers
OnAlarm ==
  /\ alarmState.alarms # {}
  /\ getAlarm(alarmState.alarms) <= alarmState.now
  /\ alarmState' = [alarmState EXCEPT !.alarms = {}, !.op = "alarm", !.buffered = 0,
                                      !.at = alarmState.now,
                                      !.before = getAlarm(alarmState.alarms)]
  /\ UNCHANGED <<service, pure, grantsTable, aclState, reconRun, apiKeyState, wideEvents>>

\* Date.now() moves on
Advance(d) ==
  /\ alarmState.advances < MaxAdvances
  /\ alarmState' = [alarmState EXCEPT !.now = @ + d, !.advances = @ + 1]
  /\ UNCHANGED <<service, pure, grantsTable, aclState, reconRun, apiKeyState, wideEvents>>

AlarmNext ==
  \/ \E flushTime \in FlushTimes : EnsureAlarmIsSet(flushTime)
  \/ ServiceThrows
  \/ AppendCompletes
  \/ OnAlarm
  \/ \E d \in ClockSteps : Advance(d)

AlarmInit ==
  /\ agg = "sum"
  /\ grantStatus = [g \in GrantIds |-> "absent"]
  /\ Quiet
  /\ pure = NoPure

AlarmSpec == AlarmInit /\ [][AlarmNext]_vars

\* C28: after ensureAlarmIsSet at now with flushTime, when no alarm was
\* pending or the pending one lay in the past, the alarm is at now plus
\* flushTime (the TTL of one minute when there is none) bounded to between
\* 5 seconds and 30 minutes; a pending alarm not in the past is left as it
\* was; and the storage never holds more than one alarm.
C28_AlarmTime ==
  /\ Cardinality(alarmState.alarms) <= 1
  /\ alarmState.op = "ensure"
       => IF alarmState.before = Null \/ alarmState.before < alarmState.at
          THEN alarmState.alarms
                 = {alarmState.at
                      + 1000 * (CASE alarmState.flushTime = Null -> 60
                                  [] alarmState.flushTime # Null /\ alarmState.flushTime < 5 -> 5
                                  [] alarmState.flushTime > 1800 -> 1800
                                  [] OTHER -> alarmState.flushTime)}
          ELSE alarmState.alarms = {alarmState.before}

\* a request with flushTime 5000 replaced an alarm that lay in the past by
\* one 30 minutes ahead
C28_Witness ==
  /\ alarmState.op = "ensure"
  /\ alarmState.flushTime = 5000
  /\ alarmState.before # Null
  /\ alarmState.before < alarmState.at
  /\ alarmState.alarms = {alarmState.at + 1800000}

\* C29: when a request persisted a meter usage while a reconcile was
\* awaiting analytics, the usage the reconcile then persists is the usage
\* it finds in the storage, with or without its drift correction: the
\* usage written meanwhile is not replaced by the one the reconcile read
\* when it started.
C29_ReconcileKeepsConcurrentUsage ==
  [][\A recon \in inflight \ inflight' :
       (/\ ReconcileStep
        /\ lastRecon'.kind = "applied"
        /\ store.exists
        /\ store'.exists
        /\ store.meter.usage # recon.meter.usage)
         => store'.meter.usage
              \in {store.meter.usage,
                   store.meter.usage + (lastRecon'.analyticsUsage - lastRecon'.snapshotUsage)}]_vars

\* C31: whenever the actor's buffers hold a record, an alarm is pending, so
\* that the record is flushed without a further request.
C31_BufferedHasAlarm ==
  alarmState.buffered > 0 => alarmState.alarms # {}

----------------------------------------------------------------------------
\* The customer's ACL flag under verify and reportUsage

\* limit of an entitlement, verify's proposed usage, reportUsage's usage
AclLimit == 2
AclProposed == {0, 1, 3}
AclUsages == {0 - 1, 1, 2}

\* the state the first lookup of a usage feature leaves in the storage
AclEntitlement(blockCustomer) ==
  [exists |-> TRUE, featureType |-> "usage", aggregationMethod |-> "sum",
   limit |-> AclLimit, overageStrategy |-> "none", meter |-> [usage |-> 0],
   blockCustomer |-> blockCustomer]

\* customerService.updateAccessControlList({updates: {customerUsageLimitReached}})
updateAccessControlList(flag, customerUsageLimitReached) == customerUsageLimitReached

shouldBlockCustomer(state, deniedReason) ==
  deniedReason = "LIMIT_EXCEEDED" /\ state.blockCustomer = TRUE

AclStep(op, f, state, m, flag) ==
  [aclState EXCEPT !.states[f] = state, !.customerUsageLimitReached = flag,
                   !.op = op, !.feature = f, !.deniedReason = m.deniedReason,
                   !.blockCustomer = state.blockCustomer, !.key = "", !.usage = 0,
                   !.alreadyRecorded = FALSE]

\* the first lookup of a feature computes its entitlement
AclEntitle(f, blockCustomer) ==
  /\ ~aclState.states[f].exists
  /\ aclState' = [aclState EXCEPT !.states[f] = AclEntitlement(blockCustomer),
                                  !.op = "entitle", !.feature = f,
                                  !.deniedReason = "", !.blockCustomer = blockCustomer]
  /\ UNCHANGED <<service, pure, grantsTable, alarmState, reconRun, apiKeyState, wideEvents>>

\* verify of a feature without entitlement: ENTITLEMENT_NOT_FOUND, early return
AclVerifyNotFound(f) ==
  /\ ~aclState.states[f].exists
  /\ aclState' = [aclState EXCEPT !.op = "verify", !.feature = f,
                                  !.deniedReason = "ENTITLEMENT_NOT_FOUND",
                                  !.blockCustomer = FALSE]
  /\ UNCHANGED <<service, pure, grantsTable, alarmState, reconRun, apiKeyState, wideEvents>>

AclVerified(f, state, m) ==
  AclStep("verify", f, [state EXCEPT !.meter = m.meter], m,
          updateAccessControlList(aclState.customerUsageLimitReached,
                                  shouldBlockCustomer(state, m.deniedReason)))

\* verify: usageMeter.verify, storage.set, updateAccessControlList
AclVerify(f, u) ==
  /\ aclState.states[f].exists
  /\ aclState' = AclVerified(f, aclState.states[f], MeterVerify(aclState.states[f], u))
  /\ UNCHANGED <<service, pure, grantsTable, alarmState, reconRun, apiKeyState, wideEvents>>

\* reportUsage updates the ACL when it blocks or when a refund leaves room
AclReported(f, d, state, m) ==
  AclStep("report", f, [state EXCEPT !.meter = m.meter], m,
          IF shouldBlockCustomer(state, m.deniedReason)
               \/ (d < 0 /\ m.allowed /\ m.remaining > 0)
          THEN updateAccessControlList(aclState.customerUsageLimitReached,
                                       shouldBlockCustomer(state, m.deniedReason))
          ELSE aclState.customerUsageLimitReached)

\* the key was seen: the current meter is returned and nothing is written
AclAlreadyRecorded(f, k, d) ==
  [aclState EXCEPT !.op = "report", !.feature = f, !.deniedReason = "",
                   !.blockCustomer = aclState.states[f].blockCustomer,
                   !.key = k, !.usage = d, !.alreadyRecorded = TRUE,
                   !.reported = @ \cup {<<f, k>>}]

AclConsumed(f, k, d, seen) ==
  IF seen.exists THEN AclAlreadyRecorded(f, k, d)
  ELSE [AclReported(f, d, aclState.states[f], MeterConsume(aclState.states[f], d))
          EXCEPT !.keys = seen.keys, !.key = k, !.usage = d,
                 !.reported = @ \cup {<<f, k>>}]

\* reportUsage: storage.hasIdempotenceKey(params.idempotenceKey), then
\* usageMeter.consume, storage.set, updateAccessControlList
AclReportUsage(f, k, d) ==
  /\ aclState.states[f].exists
  /\ aclState.states[f].meter.usage + d >= 0
  /\ aclState' = AclConsumed(f, k, d, hasIdempotenceKey(aclState.keys, k))
  /\ UNCHANGED <<service, pure, grantsTable, alarmState, reconRun, apiKeyState, wideEvents>>

AclNext ==
  \/ \E f \in AclFeatures, b \in BOOLEAN : AclEntitle(f, b)
  \/ \E f \in AclFeatures : AclVerifyNotFound(f)
  \/ \E f \in AclFeatures, u \in AclProposed : AclVerify(f, u)
  \/ \E f \in AclFeatures, k \in Keys, d \in AclUsages : AclReportUsage(f, k, d)

AclInit ==
  /\ agg = "sum"
  /\ grantStatus = [g \in GrantIds |-> "absent"]
  /\ Quiet
  /\ pure = NoPure

AclSpec == AclInit /\ [][AclNext]_vars

\* C32: a verify sets the ACL flag customerUsageLimitReached to true when it
\* is denied with LIMIT_EXCEEDED and the entitlement asks for blocking, and
\* every other verify, for any feature of the customer, leaves the flag as
\* it was.
C32_VerifyOnlySetsFlag ==
  [][aclState'.op = "verify" =>
       aclState'.customerUsageLimitReached =
         IF aclState'.deniedReason = "LIMIT_EXCEEDED" /\ aclState'.blockCustomer
         THEN TRUE ELSE aclState.customerUsageLimitReached]_vars

\* the last request was a verify that found the stored entitlement expired
\* and no grant to recompute it from, and the grants are as they were then
\* (a grant is only ever created from absent and deleted from live)
ExpiredWithoutGrant ==
  /\ lastResult.op = "verify"
  /\ lastResult.path = "expired-none"
  /\ lastResult.deniedReason = "ENTITLEMENT_NOT_FOUND"
  /\ grantStatus = [g \in GrantIds |-> IF g = "g2" THEN "live" ELSE "absent"]

\* C33: once a verify has found the entitlement expired with no grant
\* surviving, the next verify, with no grant change in between, is denied
\* with ENTITLEMENT_NOT_FOUND again.
C33_ExpiredStaysNotFound ==
  [][ExpiredWithoutGrant /\ VerifyStep /\ ~lastResult'.thrown
       => lastResult'.deniedReason = "ENTITLEMENT_NOT_FOUND"]_vars

\* C34: a reconcile in flight when resetEntitlements ran does not re-create
\* the entitlement state: when it returns after the reset and before the
\* next lookup, the actor storage stays empty.
C34_ResetSurvivesReconcile ==
  [][ReconcileStep /\ lastResult.op = "reset" => store' = NoState]_vars

\* a reportUsage whose key was reported before for another feature of the
\* customer and never for its own
KeyOfOtherFeature ==
  /\ aclState'.op = "report"
  /\ <<aclState'.feature, aclState'.key>> \notin aclState.reported
  /\ \E f \in AclFeatures \ {aclState'.feature} : <<f, aclState'.key>> \in aclState.reported

\* C35: idempotence keys are scoped per feature: a reportUsage for one
\* feature with a key seen before only for another feature of the customer
\* is not answered as already recorded and is consumed on its own meter.
C35_KeysScopedPerFeature ==
  [][KeyOfOtherFeature
       => /\ ~aclState'.alreadyRecorded
          /\ aclState'.states[aclState'.feature].meter =
               MeterConsume(aclState.states[aclState'.feature], aclState'.usage).meter]_vars

\* what analytics answers to the query of an in-flight reconcile
AnalyticsOf(recon) ==
  getFeaturesUsageCursor(analytics, recon.entitlementState.aggregationMethod,
                         recon.entitlementState.featureType, recon.afterRecordId,
                         recon.beforeRecordId, recon.startAt)

\* the reconcile that returns in this step was not aborted
AppliedReconcile(recon) ==
  ReconcileStep /\ recon \in inflight \ inflight' /\ lastRecon'.kind = "applied"

\* the cursor after the reconcile: the last record id analytics returned,
\* or ulid(watermark) when it returned none
CursorAdvanced(recon, res) ==
  store'.meter.lastReconciledId =
    IF res.lastRecordId # EmptyId THEN res.lastRecordId ELSE recon.beforeRecordId

\* the baseline after the reconcile: the usage it reconciled against (the
\* analytics usage) or the counter it wrote
BaselineUpdated(res) ==
  store'.meter.snapshotUsage \in {res.usage, store'.meter.usage}

\* a reconcile that is not aborted advances the cursor
ReconcileAdvancesCursor ==
  [][\A recon \in inflight : AppliedReconcile(recon)
       => CursorAdvanced(recon, AnalyticsOf(recon))]_vars

\* C36: a reconcile that is not skipped and not aborted advances the cursor
\* to the last record id of analytics (ulid(watermark) when there is none)
\* and updates meter.snapshotUsage, the baseline of the next drift.
C36_ReconcileAdvancesBaseline ==
  [][\A recon \in inflight : AppliedReconcile(recon)
       => /\ CursorAdvanced(recon, AnalyticsOf(recon))
          /\ BaselineUpdated(AnalyticsOf(recon))]_vars

----------------------------------------------------------------------------
\* reconcileFeatureUsage on its own: one call on a given state

ReconFeatureTypes == {"flat", "usage"}
ReconCursors == {EmptyId, Ulid(1, 2), Ulid(3, 2)}
ReconEffectiveAts == {0, 3}
ReconTimes == 1..MaxTime
ReconUsages == {0, 3, 1200}

\* an entitlement state as the storage holds it
ReconInput(featureType, method, lastReconciledId, effectiveAt, hasResetConfig) ==
  [exists |-> TRUE, limit |-> 2000, mergingPolicy |-> "sum",
   effectiveAt |-> effectiveAt, expiresAt |-> Null,
   hasResetConfig |-> hasResetConfig, featureType |-> featureType,
   aggregationMethod |-> method, grants |-> <<>>, version |-> NoVersion,
   nextRevalidateAt |-> 0, overageStrategy |-> "none",
   meter |-> [usage |-> 3, snapshotUsage |-> 0,
              lastReconciledId |-> lastReconciledId, lastCycleStart |-> effectiveAt]]

ReconInputs ==
  {ReconInput(ft, m, id, e, r) : ft \in ReconFeatureTypes, m \in AggMethods,
                                 id \in ReconCursors, e \in ReconEffectiveAts,
                                 r \in BOOLEAN}

ReconCalled(state, t, recon) ==
  [phase |-> IF recon.started THEN "querying" ELSE "skipped",
   state |-> state, at |-> t, recon |-> recon,
   queries |-> IF recon.started THEN 1 ELSE 0, stored |-> state]

\* reconcileFeatureUsage({state, now}) up to its analytics query
ReconcileFeatureUsage(state, t, b) ==
  /\ reconRun.phase = "idle"
  /\ reconRun' = ReconCalled(state, t, ReconcileStart(state, t, [before |-> b, after |-> b]))
  /\ UNCHANGED <<service, pure, grantsTable, alarmState, aclState, apiKeyState, wideEvents>>

\* the analytics query returns and the reconcile persists or aborts
ReconcileAnswered(usage, lastRecordId) ==
  /\ reconRun.phase = "querying"
  /\ reconRun' = [reconRun EXCEPT
                    !.phase = "done",
                    !.stored = ReconcilePersist(reconRun.recon,
                                                [usage |-> usage, lastRecordId |-> lastRecordId],
                                                reconRun.stored)]
  /\ UNCHANGED <<service, pure, grantsTable, alarmState, aclState, apiKeyState, wideEvents>>

ReconNext ==
  \/ \E state \in ReconInputs, t \in ReconTimes, b \in BoundaryRandom :
       ReconcileFeatureUsage(state, t, b)
  \/ \E usage \in ReconUsages, id \in ReconCursors : ReconcileAnswered(usage, id)

ReconInit ==
  /\ agg = "sum"
  /\ grantStatus = [g \in GrantIds |-> "absent"]
  /\ Quiet
  /\ pure = NoPure

ReconSpec == ReconInit /\ [][ReconNext]_vars

\* the five cases: a flat feature, a behaviour other than sum, a cursor at
\* or past ulid(watermark), a watermark before the start of the range, an
\* empty cursor
SkipCase(state, watermark) ==
  \/ state.featureType = "flat"
  \/ state.aggregationMethod \notin {"sum", "count", "sum_all", "count_all"}
  \/ \E b \in BoundaryRandom : state.meter.lastReconciledId >= Ulid(watermark, b)
  \/ watermark < StartOr(WindowOf(state, watermark), state.effectiveAt)
  \/ state.meter.lastReconciledId = EmptyId

\* C37: a reconcile of a flat feature, of a behaviour other than sum, with
\* lastReconciledId at or past ulid(watermark), with the watermark before
\* effectiveAt or with an empty lastReconciledId sends no analytics query
\* and leaves the stored state as it was.
C37_SkippedReconcileIsInert ==
  (reconRun.phase # "idle" /\ SkipCase(reconRun.state, reconRun.at - WatermarkLag))
    => /\ reconRun.phase = "skipped"
       /\ reconRun.queries = 0
       /\ reconRun.stored = reconRun.state

\* a usage feature with sum behaviour, its range begun before the
\* watermark, was reconciled with an empty cursor and the call was skipped
C37_Witness ==
  /\ reconRun.phase = "skipped"
  /\ reconRun.state.featureType = "usage"
  /\ reconRun.state.aggregationMethod = "sum"
  /\ reconRun.state.meter.lastReconciledId = EmptyId
  /\ reconRun.at - WatermarkLag >= reconRun.state.effectiveAt

\* a verify or reportUsage whose lookup misses the actor storage while the
\* feature's negative entry is in the cache
NegativeCachedLookup ==
  /\ RequestStep
  /\ lastResult'.op \in {"verify", "report"}
  /\ negCache
  /\ ~store.exists

\* a verify or reportUsage whose lookup found neither a stored state nor
\* an entitlement nor a grant to compute one from
MissedLookup ==
  /\ RequestStep
  /\ lastResult'.op \in {"verify", "report"}
  /\ ~store.exists
  /\ lastResult'.path = "miss-none"

\* C38: a lookup that finds no entitlement and no live grant leaves the
\* negative entry of the feature in the cache, and while the entry is there
\* a cached lookup of the feature returns null without recomputing from the
\* grants: the request is refused with ENTITLEMENT_NOT_FOUND, no state is
\* stored and the table and the caches are left as they were.
C38_NegativeCacheAnswers ==
  [][/\ MissedLookup => negCache'
     /\ NegativeCachedLookup
          => /\ lastResult'.deniedReason = "ENTITLEMENT_NOT_FOUND"
             /\ lastResult'.path = "miss-none"
             /\ store' = NoState
             /\ dbEnt' = dbEnt
             /\ cacheEnt' = cacheEnt
             /\ negCache']_vars

\* the second request found nothing either, with the negative entry in the
\* cache, nothing stored, and a grant in the table that is live now
C38_Witness ==
  /\ reqCount >= 2
  /\ lastResult.op = "verify"
  /\ lastResult.path = "miss-none"
  /\ negCache
  /\ store = NoState
  /\ computeGrantsForCustomer(grantStatus, agg, now).exists

----------------------------------------------------------------------------
\* The apikey service: verifyApiKey and rollApiKey on one apikey row

\* times the key may be rolled
MaxRolls == 3

\* apikeys.findFirst({where: eq(apikey.hash, keyHash)}): the row was found
getData(hash, keyHash) == hash = keyHash

\* cache.apiKeyByHash.swr(keyHash, getData): the cached entry, else the row
\* loaded from the table
getApiKey(hash, cached, keyHash) == keyHash \in cached \/ getData(hash, keyHash)

\* verifyApiKey({key}): getApiKey with skipCache false; the row is neither
\* revoked nor expired and its project and workspace are enabled
VerifyApiKey(key) ==
  /\ key <= apiKeyState.issued
  /\ apiKeyState' =
       [apiKeyState EXCEPT
          !.op = "verify", !.key = key,
          !.ok = getApiKey(apiKeyState.hash, apiKeyState.cached, hashStringSHA256(key)),
          !.cached = IF getApiKey(apiKeyState.hash, apiKeyState.cached,
                                  hashStringSHA256(key))
                     THEN @ \cup {hashStringSHA256(key)} ELSE @]
  /\ UNCHANGED <<service, pure, grantsTable, alarmState, aclState, reconRun, wideEvents>>

\* rollApiKey({keyHash}): NOT_FOUND when no row has the hash; else a new key
\* is drawn, the row's hash is updated and the new hash is put in the cache
RollApiKey(key) ==
  /\ key <= apiKeyState.issued
  /\ apiKeyState.issued <= MaxRolls
  /\ apiKeyState' =
       IF ~getData(apiKeyState.hash, hashStringSHA256(key))
       THEN [apiKeyState EXCEPT !.op = "roll", !.key = key, !.ok = FALSE]
       ELSE [apiKeyState EXCEPT
               !.op = "roll", !.key = key, !.ok = TRUE,
               !.issued = @ + 1,
               !.hash = hashStringSHA256(apiKeyState.issued + 1),
               !.cached = @ \cup {hashStringSHA256(apiKeyState.issued + 1)},
               !.rolled = @ \cup {key}]
  /\ UNCHANGED <<service, pure, grantsTable, alarmState, aclState, reconRun, wideEvents>>

\* an entry of apiKeyByHash runs out of its time to live
ApiKeyCacheExpire(keyHash) ==
  /\ keyHash \in apiKeyState.cached
  /\ apiKeyState' = [apiKeyState EXCEPT !.op = "expire", !.cached = @ \ {keyHash}]
  /\ UNCHANGED <<service, pure, grantsTable, alarmState, aclState, reconRun, wideEvents>>

\* the keys newId("apikey_key") gives, in the order it gives them
ApiKeys == 1..(MaxRolls + 1)

ApiKeyNext ==
  \/ \E key \in ApiKeys : VerifyApiKey(key)
  \/ \E key \in ApiKeys : RollApiKey(key)
  \/ \E key \in ApiKeys : ApiKeyCacheExpire(hashStringSHA256(key))

ApiKeyInit ==
  /\ agg = "sum"
  /\ grantStatus = [g \in GrantIds |-> "absent"]
  /\ Quiet
  /\ pure = NoPure

ApiKeySpec == ApiKeyInit /\ [][ApiKeyNext]_vars

\* C39: after rollApiKey has succeeded for a key, verifyApiKey with that
\* key does not succeed, and verifyApiKey with the key issued last does.
C39_RolledKeyRejected ==
  [][apiKeyState'.op = "verify"
       => /\ apiKeyState'.key \in apiKeyState.rolled => ~apiKeyState'.ok
          /\ hashStringSHA256(apiKeyState'.key) = apiKeyState.hash => apiKeyState'.ok]_vars

----------------------------------------------------------------------------
\* WideEventLogger: runAsync(fn) where fn adds attributes before and after
\* its awaits and emits at its end.  One step is one turn of the event loop.

\* attributes fn adds, and how many awaits it has
Attributes == {"request.id", "request.status", "usagelimiter.next_alarm"}
MaxAwaits == 2

\* the attributes run() puts into a new context
ServiceAttributes == {"service.name", "service.version", "service.environment"}

\* createStorageAdapter: AsyncLocalStorage when node:async_hooks can be
\* required, else the variable fallback
Adapters == {"als", "fallback"}

\* getStore() in a turn that continues call c after an await:
\* als?.getStore() ?? fallback
getStore(adapter, fallback, c) == IF adapter = "als" THEN c ELSE fallback

\* ctx.attributes.set(key, value), or nothing when there is no context
add(calls, ctx, key) ==
  IF ctx = NoContext THEN calls
  ELSE [calls EXCEPT ![ctx].attributes = @ \cup {key}]

\* new WideEventLogger(config)
CreateLogger(adapter) ==
  /\ wideEvents.adapter = "none"
  /\ wideEvents' = [wideEvents EXCEPT !.adapter = adapter]
  /\ UNCHANGED <<service, pure, grantsTable, alarmState, aclState, reconRun, apiKeyState>>

\* the context of call c while fn runs up to its first await: both
\* adapters give the new context there
Started(c, key) ==
  [phase |-> "awaiting", attributes |-> ServiceAttributes \cup {key},
   added |-> {key}, sampled |-> FALSE, emitted |-> {}]

\* runAsync(fn): run creates the context, storage.run(ctx, fn) runs fn up to
\* its first await; the fallback adapter then restores the previous value
RunAsync(c, key) ==
  /\ wideEvents.adapter # "none"
  /\ wideEvents.calls[c].phase = "idle"
  /\ wideEvents' = [wideEvents EXCEPT !.calls[c] = Started(c, key),
                                      !.fallback = wideEvents.fallback]
  /\ UNCHANGED <<service, pure, grantsTable, alarmState, aclState, reconRun, apiKeyState>>

Continued(calls, c, key) ==
  [calls EXCEPT ![c].added = @ \cup {key}]

\* fn continues after an await and calls add(key, value)
AddAfterAwait(c, key) ==
  /\ wideEvents.calls[c].phase = "awaiting"
  /\ Cardinality(wideEvents.calls[c].added) <= MaxAwaits
  /\ key \notin wideEvents.calls[c].added
  /\ wideEvents' =
       [wideEvents EXCEPT
          !.calls = Continued(add(wideEvents.calls,
                                  getStore(wideEvents.adapter, wideEvents.fallback, c),
                                  key),
                              c, key)]
  /\ UNCHANGED <<service, pure, grantsTable, alarmState, aclState, reconRun, apiKeyState>>

\* the event emit() hands to the emitter: none without a context or when
\* the event is not sampled
Emitted(calls, ctx, sampled) ==
  IF ctx = NoContext \/ ~sampled THEN {} ELSE calls[ctx].attributes

\* emit() at the end of fn, after at least one await
Emit(c, sampled) ==
  /\ wideEvents.calls[c].phase = "awaiting"
  /\ Cardinality(wideEvents.calls[c].added) >= 2
  /\ wideEvents' =
       [wideEvents EXCEPT
          !.calls[c].phase = "done",
          !.calls[c].sampled = sampled,
          !.calls[c].emitted =
             Emitted(wideEvents.calls,
                     getStore(wideEvents.adapter, wideEvents.fallback, c), sampled)]
  /\ UNCHANGED <<service, pure, grantsTable, alarmState, aclState, reconRun, apiKeyState>>

LoggerNext ==
  \/ \E adapter \in Adapters : CreateLogger(adapter)
  \/ \E c \in Calls, key \in Attributes : RunAsync(c, key)
  \/ \E c \in Calls, key \in Attributes : AddAfterAwait(c, key)
  \/ \E c \in Calls, sampled \in BOOLEAN : Emit(c, sampled)

LoggerInit ==
  /\ agg = "sum"
  /\ grantStatus = [g \in GrantIds |-> "absent"]
  /\ Quiet
  /\ pure = NoPure

LoggerSpec == LoggerInit /\ [][LoggerNext]_vars

\* C40: inside runAsync(fn) the context is kept across the awaits of fn:
\* every attribute fn has added, before or after an await, is in the
\* context created for the call, and the event a sampled emit() at the end
\* of fn hands to the emitter contains all of them.
C40_ContextAcrossAwaits ==
  \A c \in Calls :
    /\ wideEvents.calls[c].added \subseteq wideEvents.calls[c].attributes
    /\ (wideEvents.calls[c].phase = "done" /\ wideEvents.calls[c].sampled)
         => wideEvents.calls[c].added \subseteq wideEvents.calls[c].emitted

\* with AsyncLocalStorage the context is kept
ContextKeptWithAls ==
  wideEvents.adapter = "als" => C40_ContextAcrossAwaits

====
